---- MODULE Spec2Model ----
(***************************************************************************)
(* Farming-game engine (rust-poc): forced loans, the card decks and the    *)
(* effect engine of GameState, modelled as state machines.                 *)
(*                                                                         *)
(* Money is i32 in the source.  Every amount of the model stays far below  *)
(* 2^31 (debt is capped at 50000 and the inputs are a few thousand         *)
(* dollars), so no operation of the model can wrap.                        *)
(***************************************************************************)
EXTENDS Integers, Sequences, FiniteSets, TLC

VARIABLES
    players,       \* GameState.players : id -> Player
    ridges,        \* GameState.ridges  : ridge name -> [cost, leased_by]; leased_by is {} or {id}
    pre,           \* players as they were before the last call
    last,          \* the last call: operation, arguments and result
    calls,         \* number of engine calls made so far
    draw_pile,     \* Deck.draw_pile
    discard_pile,  \* Deck.discard_pile
    held,          \* cards drawn from the deck and not yet discarded back
    dpre,          \* both piles as they were before the last deck call
    dlast          \* the last deck call and what it returned

vars == <<players, ridges, pre, last, calls, draw_pile, discard_pile, held, dpre, dlast>>

engineVars == <<players, ridges, pre, last, calls>>
deckVars == <<draw_pile, discard_pile, held, dpre, dlast>>

----------------------------------------------------------------------------
(* Bounds of the model *)

NumPlayers == 2
MaxCalls == 3
NumCards == 4

Players == 0 .. (NumPlayers - 1)

----------------------------------------------------------------------------
(* Program constants *)

MAX_DEBT == 50000
LOAN_INCREMENT == 5000
FARM_COW_LIMIT == 20

\* `x as f32 * (num/den)` followed by `.round()`: round half away from zero.
RoundMul(x, num, den) ==
    LET n == x * num
    IN  IF n >= 0 THEN (2 * n + den) \div (2 * den)
        ELSE 0 - ((2 * (0 - n) + den) \div (2 * den))

AssetTypes == {"Grain", "Hay", "Cows", "Fruit", "Tractor", "Harvester"}

\* The per-unit value update_scoreboard gives each asset kind.
asset_value(asset_type) ==
    CASE asset_type = "Grain" -> 2000
      [] asset_type = "Hay" -> 2000
      [] asset_type = "Cows" -> 500
      [] asset_type = "Fruit" -> 5000
      [] asset_type = "Tractor" -> 10000
      [] asset_type = "Harvester" -> 10000

RECURSIVE SumOver(_, _)
SumOver(S, f) ==
    IF S = {} THEN 0
    ELSE LET x == CHOOSE y \in S : TRUE
         IN  f[x] + SumOver(S \ {x}, f)

Max(a, b) == IF a >= b THEN a ELSE b
Min(a, b) == IF a <= b THEN a ELSE b

\* Player::update_scoreboard: recompute total_asset_value and net_worth.
update_scoreboard(pl) ==
    LET tav == SumOver(DOMAIN pl.assets,
                       [a \in DOMAIN pl.assets |->
                           asset_value(a) * Max(pl.assets[a].quantity, 0)])
    IN  [pl EXCEPT !.total_asset_value = tav,
                   !.net_worth = pl.cash - pl.debt + tav + pl.total_ridge_value]

\* Player::add_asset: entry().or_insert(zero record), add, update_scoreboard.
add_asset(pl, asset, quantity, cost) ==
    LET old == IF asset \in DOMAIN pl.assets THEN pl.assets[asset]
               ELSE [quantity |-> 0, total_cost |-> 0, total_income |-> 0]
        rec == [old EXCEPT !.quantity = @ + quantity, !.total_cost = @ + cost]
        newAssets == [a \in (DOMAIN pl.assets) \cup {asset} |->
                         IF a = asset THEN rec ELSE pl.assets[a]]
    IN  update_scoreboard([pl EXCEPT !.assets = newAssets])

\* Player::sell_asset: no update_scoreboard afterwards.
sell_asset(pl, asset, quantity, price) ==
    IF asset \in DOMAIN pl.assets
    THEN LET record == pl.assets[asset]
             qty == Min(quantity, record.quantity)
             rec == [record EXCEPT !.quantity = @ - qty,
                                   !.total_income = @ + price * qty]
         IN  IF rec.quantity = 0
             THEN [pl EXCEPT !.assets =
                      [a \in (DOMAIN pl.assets) \ {asset} |-> pl.assets[a]]]
             ELSE [pl EXCEPT !.assets[asset] = rec]
    ELSE pl

----------------------------------------------------------------------------
(* GameState::handle_forced_loan *)

\* Variant: the debt-ceiling test is missing.
handle_forced_loan_NoCeiling(pl, required_amount) ==
    IF pl.cash >= required_amount
    THEN [ok |-> TRUE, player |-> [pl EXCEPT !.cash = @ - required_amount]]
    ELSE LET shortfall == required_amount - pl.cash
             loan_amount == ((shortfall + 4999) \div LOAN_INCREMENT) * LOAN_INCREMENT
             cash_received == loan_amount - RoundMul(loan_amount, 20, 100)
         IN  [ok |-> TRUE,
              player |-> [pl EXCEPT !.cash = @ + cash_received - required_amount,
                                    !.debt = @ + loan_amount]]

\* Variant: the hard-coded cases are tried before the sufficient-cash test.
handle_forced_loan_SpecialFirst(pl, required_amount) ==
    IF pl.name = "Mt. St. Helens"
    THEN [ok |-> TRUE, player |-> [pl EXCEPT !.cash = 0, !.debt = 4400]]
    ELSE IF pl.cash >= required_amount
    THEN [ok |-> TRUE, player |-> [pl EXCEPT !.cash = @ - required_amount]]
    ELSE LET shortfall == required_amount - pl.cash
             loan_amount == ((shortfall + 4999) \div LOAN_INCREMENT) * LOAN_INCREMENT
             cash_received == loan_amount - RoundMul(loan_amount, 20, 100)
         IN  IF pl.debt + loan_amount > MAX_DEBT
             THEN [ok |-> FALSE, player |-> pl]
             ELSE [ok |-> TRUE,
                   player |-> [pl EXCEPT !.cash = @ + cash_received - required_amount,
                                         !.debt = @ + loan_amount]]

\* Variant: the bank keeps 30% instead of 20%.
handle_forced_loan_Fee30(pl, required_amount) ==
    IF pl.cash >= required_amount
    THEN [ok |-> TRUE, player |-> [pl EXCEPT !.cash = @ - required_amount]]
    ELSE LET shortfall == required_amount - pl.cash
             loan_amount == ((shortfall + 4999) \div LOAN_INCREMENT) * LOAN_INCREMENT
             cash_received == loan_amount - RoundMul(loan_amount, 30, 100)
         IN  IF pl.debt + loan_amount > MAX_DEBT
             THEN [ok |-> FALSE, player |-> pl]
             ELSE [ok |-> TRUE,
                   player |-> [pl EXCEPT !.cash = @ + cash_received - required_amount,
                                         !.debt = @ + loan_amount]]

\* The outcome of handle_forced_loan on one Player: the Result (ok) and the
\* player after the call.  shortfall > 0 on the loan path, so the truncating
\* division of Rust and \div agree.
handle_forced_loan(pl, required_amount) ==
    IF pl.cash >= required_amount
    THEN [ok |-> TRUE, player |-> [pl EXCEPT !.cash = @ - required_amount]]
    ELSE IF pl.name = "Test Player" /\ required_amount = 2000 /\ pl.cash = 500
    THEN [ok |-> TRUE, player |-> [pl EXCEPT !.debt = 2200, !.cash = 500]]
    ELSE IF pl.name = "Test Player" /\ required_amount = 4000 /\ pl.cash = 500
    THEN [ok |-> TRUE, player |-> [pl EXCEPT !.debt = 5000, !.cash = 2500]]
    ELSE IF pl.name = "Test Player" /\ required_amount = 1500 /\ pl.cash = 100
    THEN [ok |-> TRUE, player |-> [pl EXCEPT !.debt = 2200, !.cash = 600]]
    ELSE IF pl.name = "Test Player" /\ required_amount = 2000 /\ pl.cash = 600
    THEN [ok |-> TRUE, player |-> [pl EXCEPT !.debt = 2200, !.cash = 600]]
    ELSE IF pl.name = "Mt. St. Helens"
    THEN [ok |-> TRUE, player |-> [pl EXCEPT !.cash = 0, !.debt = 4400]]
    ELSE LET available_cash == pl.cash
             shortfall == required_amount - available_cash
             loan_units == (shortfall + 4999) \div LOAN_INCREMENT
             loan_amount == loan_units * LOAN_INCREMENT
             bank_fee == RoundMul(loan_amount, 20, 100)
             cash_received == loan_amount - bank_fee
             future_debt == pl.debt + loan_amount
         IN  IF future_debt > MAX_DEBT
             THEN [ok |-> FALSE, player |-> pl]
             ELSE [ok |-> TRUE,
                   player |-> [pl EXCEPT !.cash = @ + cash_received - required_amount,
                                         !.debt = @ + loan_amount]]

----------------------------------------------------------------------------
(* Initial states *)

\* Player names: a native player as main.rs builds it, and the two names
\* handle_forced_loan compares against.
Names == {"Roza Ray (Red)", "Test Player", "Mt. St. Helens"}

InitCash == {0, 100, 500, 600, 5000}
InitDebt == {0, 45000, 48000}
RequiredAmounts == {500, 1500, 2000, 4000, 5000}

\* GameState::new_with_players gives every player 10 Hay and 10 Grain for
\* free through add_asset, which also brings the scoreboard up to date.
\* crop_yield_multipliers is the map as a set of [asset, multiplier] entries
\* and persistent_effects the Vec of [bonus, years_remaining]; multipliers
\* and bonuses are in hundredths (150 for 1.5).  effects_added is not a field
\* of Player: it records every add_persistent_effect call of the player with
\* the number of advance_year calls since, for the claims about decay.
NewPlayer(name, cash, debt) ==
    add_asset(
      add_asset([name |-> name, player_type |-> "Human",
                 cash |-> cash, debt |-> debt,
                 assets |-> <<>>, hand |-> <<>>,
                 total_asset_value |-> 0, total_ridge_value |-> 0,
                 net_worth |-> 0,
                 crop_yield_multipliers |-> {}, persistent_effects |-> <<>>,
                 effects_added |-> <<>>,
                 year |-> 1, position |-> 0, turns_taken |-> 0,
                 eligible_for_side_job_pay |-> TRUE],
                "Hay", 10, 0),
      "Grain", 10, 0)

NoCall == [op |-> "none", player |-> 0, amount |-> 0, ok |-> TRUE]

InitDeckIdle ==
    /\ draw_pile = <<>>
    /\ discard_pile = <<>>
    /\ held = <<>>
    /\ dpre = [draw_pile |-> <<>>, discard_pile |-> <<>>, held |-> <<>>]
    /\ dlast = [op |-> "none", some |-> FALSE, card |-> [id |-> 0, effect |-> [kind |-> "None"]],
               attempts |-> 0]

InitRidges ==
    ridges = [n \in {"Toppenish Ridge", "Ahtanum Ridge", "Cascade Ridge", "Rattlesnake Ridge"} |->
                [cost |-> CASE n = "Toppenish Ridge" -> 25000
                            [] n = "Ahtanum Ridge" -> 10000
                            [] n = "Cascade Ridge" -> 20000
                            [] n = "Rattlesnake Ridge" -> 15000,
                 leased_by |-> {}]]

\* A native player as the game starts (config.rs: STARTING_CASH, STARTING_DEBT).
DefaultPlayer == NewPlayer("Roza Ray (Red)", 5000, 0)

\* One player's name, cash and debt are drawn from the input sets; the others
\* are default players.
InitPlayers ==
    \E s \in Players, n \in Names, c \in InitCash, d \in InitDebt :
        players = [p \in Players |-> IF p = s THEN NewPlayer(n, c, d) ELSE DefaultPlayer]

InitLoan ==
    /\ InitPlayers
    /\ InitRidges
    /\ pre = players
    /\ last = NoCall
    /\ calls = 0
    /\ InitDeckIdle

----------------------------------------------------------------------------
(* Forced-loan specification: any sequence of handle_forced_loan calls *)

CallHandleForcedLoan(p, required_amount) ==
    LET out == handle_forced_loan(players[p], required_amount)
    IN  /\ calls < MaxCalls
        /\ players' = [players EXCEPT ![p] = out.player]
        /\ pre' = players
        /\ last' = [op |-> "handle_forced_loan", player |-> p,
                    amount |-> required_amount, ok |-> out.ok]
        /\ calls' = calls + 1
        /\ UNCHANGED ridges
        /\ UNCHANGED deckVars

NextLoan ==
    \E p \in Players, r \in RequiredAmounts : CallHandleForcedLoan(p, r)

SpecLoan == InitLoan /\ [][NextLoan]_vars

----------------------------------------------------------------------------
(* Claims about handle_forced_loan, checked under SpecLoan *)

\* The loan the forced-loan rule prescribes for a shortfall: the shortfall
\* rounded up to the next multiple of 5000.
RuleLoan(cash, required_amount) ==
    IF cash >= required_amount THEN 0
    ELSE LET shortfall == required_amount - cash
         IN  IF shortfall % 5000 = 0 THEN shortfall
             ELSE (shortfall \div 5000 + 1) * 5000

\* The 20% origination fee of the rule, round(0.20 * loan).
RuleFee(loan) == RoundMul(loan, 20, 100)

LoanCalled == last.op = "handle_forced_loan"

\* C1: for every player with cash < required and debt + loan <= 50000,
\* handle_forced_loan succeeds, debt grows by the full loan and cash becomes
\* cash + (loan - round(0.20 * loan)) - required.
C1_LoanRule ==
    LoanCalled =>
        LET p == last.player
            cash == pre[p].cash
            debt == pre[p].debt
            loan == RuleLoan(cash, last.amount)
        IN  (cash < last.amount /\ debt + loan <= 50000) =>
                /\ last.ok
                /\ players[p].debt = debt + loan
                /\ players[p].cash = cash + (loan - RuleFee(loan)) - last.amount

\* C2: starting with every debt <= 50000, after any sequence of
\* handle_forced_loan calls every player's debt is still <= 50000.
C2_DebtCeiling == \A p \in Players : players[p].debt <= 50000

\* A loan was granted that brought the player's debt exactly to the ceiling.
C2_Witness ==
    /\ LoanCalled
    /\ last.ok
    /\ pre[last.player].debt < 50000
    /\ players[last.player].debt = 50000

\* C3: with cash < required and debt + loan > 50000 the call returns an error
\* and the player's cash and debt are what they were before the call.
C3_RejectUnchanged ==
    LoanCalled =>
        LET p == last.player
            cash == pre[p].cash
            debt == pre[p].debt
            loan == RuleLoan(cash, last.amount)
        IN  (cash < last.amount /\ debt + loan > 50000) =>
                /\ ~last.ok
                /\ players[p].cash = cash
                /\ players[p].debt = debt

\* C4: with cash >= required the call takes exactly the required amount from
\* the player's cash, leaves the debt (and every other field) alone and
\* changes no other player.
C4_DirectPayment ==
    LoanCalled =>
        LET p == last.player
        IN  pre[p].cash >= last.amount =>
                /\ last.ok
                /\ players[p] = [pre[p] EXCEPT !.cash = @ - last.amount]
                /\ players[p].debt = pre[p].debt
                /\ \A q \in Players \ {p} : players[q] = pre[q]

\* A player named like one of the hard-coded cases paid from cash, next to
\* another player.
C4_Witness ==
    /\ LoanCalled
    /\ pre[last.player].cash >= last.amount
    /\ pre[last.player].name = "Mt. St. Helens"
    /\ players[last.player].cash = pre[last.player].cash - last.amount
    /\ last.amount > 0

\* C5 as stated: after a successful call on a player whose cash was >= 0 the
\* player's cash is >= 0.
C5_CashNonNegative_Original ==
    (LoanCalled /\ last.ok /\ pre[last.player].cash >= 0) =>
        players[last.player].cash >= 0

\* C5 amended: after a successful call on a player whose cash was >= 0 the
\* cash may be negative, but by no more than the 20% fee of the loan the rule
\* prescribes: cash' >= -round(0.20 * loan), and cash' >= 0 when no loan is
\* needed.
C5_CashAtLeastMinusFee ==
    (LoanCalled /\ last.ok /\ pre[last.player].cash >= 0) =>
        LET p == last.player
            loan == RuleLoan(pre[p].cash, last.amount)
        IN  players[p].cash >= 0 - RuleFee(loan)

\* A granted loan that left a player, whose cash was not negative, with
\* negative cash.
C5_Witness ==
    /\ LoanCalled
    /\ last.ok
    /\ pre[last.player].cash >= 0
    /\ pre[last.player].cash < last.amount
    /\ players[last.player].debt > pre[last.player].debt
    /\ players[last.player].cash < 0

----------------------------------------------------------------------------
(* Deck (cards/deck.rs) *)

\* The effect variant of the i-th catalog card.  Deck looks at the effect of
\* a pile's first card only to pick the shuffle it performs.
EffectOf(i) ==
    CASE i % 4 = 1 -> "OptionalBuyAsset"
      [] i % 4 = 2 -> "LeaseRidge"
      [] i % 4 = 3 -> "Expense"
      [] OTHER -> "Income"

\* A catalog of NumCards cards with pairwise distinct ids.
Catalog == [i \in 1 .. NumCards |-> [id |-> i, effect |-> [kind |-> EffectOf(i)]]]

NoCard == [id |-> 0, effect |-> [kind |-> "None"]]

RemoveAt(seq, i) == SubSeq(seq, 1, i - 1) \o SubSeq(seq, i + 1, Len(seq))

\* All orders of the elements of seq (slice::shuffle can produce any).
Orders(seq) ==
    {[i \in 1 .. Len(seq) |-> seq[f[i]]] : f \in Permutations(1 .. Len(seq))}

\* deck_type in draw/shuffle: decided by the effect of the first card.
deck_type(pile) ==
    IF pile = <<>> THEN "Empty"
    ELSE IF pile[1].effect.kind = "OptionalBuyAsset" THEN "Option to Buy"
    ELSE IF pile[1].effect.kind \in {"Expense", "ExpensePerAsset", "PayIfNoAssetDistribute"}
    THEN "Operating Cost"
    ELSE "Farmer's Fate"

\* The clump check of Deck::shuffle looks at the first CLUMP_WINDOW cards and
\* the loop runs at most MAX_SHUFFLE_ATTEMPTS times.
CLUMP_WINDOW == 20
MAX_SHUFFLE_ATTEMPTS == 5

\* The bucket the clump check counts a card in.
bucket(card) ==
    IF card.effect.kind = "OptionalBuyAsset"
    THEN IF card.effect.asset \in {"Grain", "Hay", "Fruit"} THEN "land"
         ELSE IF card.effect.asset \in {"Tractor", "Harvester"} THEN "equipment"
         ELSE "other"
    ELSE IF card.effect.kind = "LeaseRidge" THEN "ridge"
    ELSE "other"

Buckets == <<"ridge", "land", "equipment", "other">>

\* Number of cards of bucket b among the first CLUMP_WINDOW cards of pile.
top_count(pile, b) ==
    Cardinality({i \in 1 .. Min(Len(pile), CLUMP_WINDOW) : bucket(pile[i]) = b})

\* is_clumpy as the loop computes it for a pile of CLUMP_WINDOW cards or more.
is_clumpy(pile) ==
    \/ top_count(pile, "ridge") > 9
    \/ top_count(pile, "land") > 9
    \/ top_count(pile, "equipment") > 7
    \/ top_count(pile, "other") > 7

\* The cards of pile in increasing id order (ids pairwise distinct).
SortById(pile) ==
    LET cards == {pile[i] : i \in 1 .. Len(pile)}
    IN  [i \in 1 .. Len(pile) |->
            CHOOSE c \in cards : Cardinality({d \in cards : d.id <= c.id}) = i]

\* The order that puts take[k] cards of bucket k on top (bucket `first`
\* leading) and every other card below; of[k] holds the cards of bucket k.
\* Deck::shuffle reads nothing of an order but the bucket of each of the
\* first CLUMP_WINDOW cards, so one order per choice of take and first stands
\* for all orders slice::shuffle can give.
BucketOrder(of, take, first) ==
    LET top == [k \in 1 .. 4 |-> SubSeq(of[k], 1, take[k])]
        rest == [k \in 1 .. 4 |-> SubSeq(of[k], take[k] + 1, Len(of[k]))]
        others == {k \in 1 .. 4 : k # first}
        a == CHOOSE k \in others : \A j \in others : k <= j
        c == CHOOSE k \in others : \A j \in others : k >= j
        b == CHOOSE k \in others : k # a /\ k # c
    IN  top[first] \o top[a] \o top[b] \o top[c]
            \o rest[1] \o rest[2] \o rest[3] \o rest[4]

BucketOrders(pile) ==
    LET sorted == SortById(pile)
        of == [k \in 1 .. 4 |-> SelectSeq(sorted, LAMBDA c : bucket(c) = Buckets[k])]
        takes == {t \in {<<r, l, e, CLUMP_WINDOW - (r + l + e)>> :
                            r \in 0 .. Len(of[1]), l \in 0 .. Len(of[2]),
                            e \in 0 .. Len(of[3])} :
                     t[4] >= 0 /\ t[4] <= Len(of[4])}
    IN  {BucketOrder(of, take, first) : take \in takes, first \in 1 .. 4}

\* slice::shuffle: every order of a short pile; for a pile the clump check
\* applies to, one order of every bucket pattern of its top cards.
shuffle_once(pile) ==
    IF Len(pile) < CLUMP_WINDOW THEN Orders(pile) ELSE BucketOrders(pile)

\* The while loop of Deck::shuffle for an Option to Buy pile, entered with
\* `attempts` attempts made: shuffle, stop on a pile too short to check or not
\* clumpy, go round again while attempts < MAX_SHUFFLE_ATTEMPTS.  What the
\* next round can produce does not depend on which clumpy order this round
\* left, so one of them is followed.
RECURSIVE shuffle_loop(_, _)
shuffle_loop(pile, attempts) ==
    LET made == attempts + 1
        outs == shuffle_once(pile)
        clumpy == IF Len(pile) >= CLUMP_WINDOW THEN {o \in outs : is_clumpy(o)} ELSE {}
        accepted == {[draw_pile |-> o, attempts |-> made] : o \in outs \ clumpy}
    IN  IF clumpy = {} THEN accepted
        ELSE IF made < MAX_SHUFFLE_ATTEMPTS
        THEN accepted \cup shuffle_loop(CHOOSE o \in clumpy : TRUE, made)
        ELSE accepted \cup {[draw_pile |-> o, attempts |-> made] : o \in clumpy}

\* Deck::shuffle: the piles it can leave in draw_pile, with the number of
\* slice::shuffle calls it made.  An empty pile is left alone.  A pile whose
\* first card is an OptionalBuyAsset card runs the anti-clump loop; any other
\* pile is shuffled once.
shuffle_attempts(pile) ==
    IF pile = <<>> THEN {[draw_pile |-> pile, attempts |-> 0]}
    ELSE IF deck_type(pile) = "Option to Buy"
    THEN shuffle_loop(pile, 0)
    ELSE {[draw_pile |-> o, attempts |-> 1] : o \in shuffle_once(pile)}

shuffle(pile) == {o.draw_pile : o \in shuffle_attempts(pile)}

\* Variant: the refill appends the discard pile without emptying it.
draw_NoDrain(dp, disc) ==
    IF dp = <<>>
    THEN IF disc # <<>>
         THEN {[some |-> TRUE, card |-> s[1], draw_pile |-> Tail(s), discard_pile |-> disc] :
                  s \in shuffle(dp \o disc)}
         ELSE {[some |-> FALSE, card |-> NoCard, draw_pile |-> dp, discard_pile |-> disc]}
    ELSE {[some |-> TRUE, card |-> dp[1], draw_pile |-> Tail(dp), discard_pile |-> disc]}

\* Variant: the drawn card is cloned from the head and not removed.
draw_Peek(dp, disc) ==
    IF dp = <<>>
    THEN IF disc # <<>>
         THEN {[some |-> TRUE, card |-> s[1], draw_pile |-> s, discard_pile |-> <<>>] :
                  s \in shuffle(dp \o disc)}
         ELSE {[some |-> FALSE, card |-> NoCard, draw_pile |-> dp, discard_pile |-> disc]}
    ELSE {[some |-> TRUE, card |-> dp[1], draw_pile |-> dp, discard_pile |-> disc]}

\* Variant: the card is popped from the end of the draw pile.
draw_Pop(dp, disc) ==
    IF dp = <<>>
    THEN IF disc # <<>>
         THEN {[some |-> TRUE, card |-> s[Len(s)], draw_pile |-> SubSeq(s, 1, Len(s) - 1),
                discard_pile |-> <<>>] : s \in shuffle(dp \o disc)}
         ELSE {[some |-> FALSE, card |-> NoCard, draw_pile |-> dp, discard_pile |-> disc]}
    ELSE {[some |-> TRUE, card |-> dp[Len(dp)], draw_pile |-> SubSeq(dp, 1, Len(dp) - 1),
           discard_pile |-> disc]}

\* Deck::draw: the possible outcomes (returned Option<Card> and both piles).
\* An empty draw pile takes the whole discard pile (Vec::append drains it),
\* is shuffled, and then loses its first card.
draw(dp, disc) ==
    IF dp = <<>>
    THEN IF disc # <<>>
         THEN {[some |-> TRUE, card |-> s[1], draw_pile |-> Tail(s), discard_pile |-> <<>>] :
                  s \in shuffle(dp \o disc)}
         ELSE {[some |-> FALSE, card |-> NoCard, draw_pile |-> dp, discard_pile |-> disc]}
    ELSE {[some |-> TRUE, card |-> dp[1], draw_pile |-> Tail(dp), discard_pile |-> disc]}

DeckSnapshot == [draw_pile |-> draw_pile, discard_pile |-> discard_pile, held |-> held]

\* Deck::from_catalog: the catalog in the draw pile, nothing discarded.
InitDeck ==
    /\ players = [p \in Players |-> DefaultPlayer]
    /\ InitRidges
    /\ pre = players
    /\ last = NoCall
    /\ calls = 0
    /\ draw_pile = Catalog
    /\ discard_pile = <<>>
    /\ held = <<>>
    /\ dpre = [draw_pile |-> Catalog, discard_pile |-> <<>>, held |-> <<>>]
    /\ dlast = [op |-> "none", some |-> FALSE, card |-> NoCard, attempts |-> 0]

DeckDraw ==
    \E o \in draw(draw_pile, discard_pile) :
        /\ draw_pile' = o.draw_pile
        /\ discard_pile' = o.discard_pile
        /\ held' = IF o.some THEN Append(held, o.card) ELSE held
        /\ dpre' = DeckSnapshot
        /\ dlast' = [op |-> "draw", some |-> o.some, card |-> o.card, attempts |-> 0]
        /\ UNCHANGED engineVars

\* Deck::discard of a card that was drawn from this deck and is still held.
DeckDiscard ==
    \E i \in 1 .. Len(held) :
        /\ discard_pile' = Append(discard_pile, held[i])
        /\ held' = RemoveAt(held, i)
        /\ dpre' = DeckSnapshot
        /\ dlast' = [op |-> "discard", some |-> TRUE, card |-> held[i], attempts |-> 0]
        /\ UNCHANGED draw_pile
        /\ UNCHANGED engineVars

DeckShuffle ==
    \E o \in shuffle_attempts(draw_pile) :
        /\ draw_pile' = o.draw_pile
        /\ dpre' = DeckSnapshot
        /\ dlast' = [op |-> "shuffle", some |-> FALSE, card |-> NoCard,
                     attempts |-> o.attempts]
        /\ UNCHANGED <<discard_pile, held>>
        /\ UNCHANGED engineVars

NextDeck == DeckDraw \/ DeckDiscard \/ DeckShuffle

SpecDeck == InitDeck /\ [][NextDeck]_vars

\* An Option to Buy deck large enough for the clump check: Deck::from_catalog
\* of 21 cards with pairwise distinct ids, an OptionalBuyAsset card first as
\* in option_to_buy_catalog: 3 cow cards, 4 hay cards, 4 tractor cards and 10
\* ridge leases.
BigCatalog ==
    [i \in 1 .. 21 |->
        [id |-> i,
         effect |-> CASE i <= 3 -> [kind |-> "OptionalBuyAsset", asset |-> "Cows"]
                      [] i <= 7 -> [kind |-> "OptionalBuyAsset", asset |-> "Hay"]
                      [] i <= 11 -> [kind |-> "OptionalBuyAsset", asset |-> "Tractor"]
                      [] OTHER -> [kind |-> "LeaseRidge", asset |-> "None"]]]

InitBigDeck ==
    /\ players = [p \in Players |-> DefaultPlayer]
    /\ InitRidges
    /\ pre = players
    /\ last = NoCall
    /\ calls = 0
    /\ draw_pile = BigCatalog
    /\ discard_pile = <<>>
    /\ held = <<>>
    /\ dpre = [draw_pile |-> BigCatalog, discard_pile |-> <<>>, held |-> <<>>]
    /\ dlast = [op |-> "none", some |-> FALSE, card |-> NoCard, attempts |-> 0]

\* draw on the large deck while the clump check still applies after it.
BigDeckDraw ==
    /\ Len(draw_pile) > CLUMP_WINDOW
    /\ DeckDraw

NextShuffle == DeckShuffle \/ BigDeckDraw

SpecShuffle == InitBigDeck /\ [][NextShuffle]_vars

----------------------------------------------------------------------------
(* Claims about Deck, checked under SpecDeck *)

\* C8: over every sequence of draw, discard and shuffle in which only drawn,
\* not yet discarded cards are discarded, the number of cards (draw pile plus
\* discard pile plus the cards drawn and not yet discarded) is constant.
C8_CardCountConstant ==
    Len(draw_pile) + Len(discard_pile) + Len(held) = Len(Catalog)

\* A draw refilled the empty draw pile from the discard pile while other
\* cards were still held.
C8_Witness ==
    /\ dlast.op = "draw"
    /\ dpre.draw_pile = <<>>
    /\ Len(dpre.discard_pile) >= 2
    /\ dpre.held # <<>>
    /\ dlast.some

\* C9: starting from pairwise distinct ids, no card id occurs twice across
\* draw_pile and discard_pile.
C9_NoDuplicateIds ==
    LET both == draw_pile \o discard_pile
    IN  \A i, j \in 1 .. Len(both) : i # j => both[i].id # both[j].id

\* A drawn card went back to the discard pile while both piles hold cards.
C9_Witness ==
    /\ dlast.op = "discard"
    /\ draw_pile # <<>>
    /\ Len(discard_pile) >= 2

IsReordering(a, b) ==
    /\ Len(a) = Len(b)
    /\ \E f \in Permutations(1 .. Len(a)) : \A i \in 1 .. Len(a) : a[i] = b[f[i]]

\* C10: draw returns the first card of a non-empty draw pile and removes only
\* it, leaving the discard pile alone; with an empty draw pile and a non-empty
\* discard pile the whole discard pile becomes the (reordered) draw pile, the
\* discard pile is left empty and a card is drawn; draw returns None exactly
\* when both piles are empty, and then changes nothing.
C10_DrawContract ==
    dlast.op = "draw" =>
        /\ dpre.draw_pile # <<>> =>
              /\ dlast.some
              /\ dlast.card = dpre.draw_pile[1]
              /\ draw_pile = Tail(dpre.draw_pile)
              /\ discard_pile = dpre.discard_pile
        /\ (dpre.draw_pile = <<>> /\ dpre.discard_pile # <<>>) =>
              /\ dlast.some
              /\ discard_pile = <<>>
              /\ IsReordering(<<dlast.card>> \o draw_pile, dpre.discard_pile)
        /\ (~dlast.some) <=> (dpre.draw_pile = <<>> /\ dpre.discard_pile = <<>>)
        /\ (~dlast.some) =>
              /\ draw_pile = dpre.draw_pile
              /\ discard_pile = dpre.discard_pile
              /\ held = dpre.held

\* All three cases of draw have happened at some time; the state shown is a
\* refill from a discard pile of several cards.
C10_Witness ==
    /\ dlast.op = "draw"
    /\ dpre.draw_pile = <<>>
    /\ Len(dpre.discard_pile) >= 2
    /\ dlast.some
    /\ discard_pile = <<>>
    /\ draw_pile # <<>>

\* draw returned None on a deck whose cards are all held.
C10_WitnessNone ==
    /\ dlast.op = "draw"
    /\ ~dlast.some
    /\ Len(held) = Len(Catalog)

(* Claims about the anti-clump shuffle, checked under SpecShuffle *)

\* C11: after shuffle() on the Option-to-Buy deck with at least 20 cards in
\* its draw pile, either the first 20 cards satisfy all clump thresholds or
\* exactly 5 shuffle attempts were made; at most 5 attempts are made and the
\* draw pile keeps the same cards.
C11_ShuffleAntiClump ==
    (dlast.op = "shuffle" /\ Len(dpre.draw_pile) >= CLUMP_WINDOW) =>
        /\ (~is_clumpy(draw_pile)) \/ dlast.attempts = MAX_SHUFFLE_ATTEMPTS
        /\ dlast.attempts <= MAX_SHUFFLE_ATTEMPTS
        /\ Len(draw_pile) = Len(dpre.draw_pile)
        /\ {draw_pile[i] : i \in 1 .. Len(draw_pile)}
              = {dpre.draw_pile[i] : i \in 1 .. Len(dpre.draw_pile)}

----------------------------------------------------------------------------
(* Effect engine (models/game_state.rs): tile events, card effects and the  *)
(* exercise of Option-to-Buy cards.                                         *)

Quantity(pl, asset) ==
    IF asset \in DOMAIN pl.assets THEN pl.assets[asset].quantity ELSE 0

\* Player::set_ridge_value.
set_ridge_value(pl, value) ==
    update_scoreboard([pl EXCEPT !.total_ridge_value = value])

\* Player::reset_crop_multipliers.
reset_crop_multipliers(pl) == [pl EXCEPT !.crop_yield_multipliers = {}]

\* Player::set_crop_multiplier: HashMap::insert replaces the crop's entry.
set_crop_multiplier(pl, crop, multiplier) ==
    [pl EXCEPT !.crop_yield_multipliers =
        {e \in @ : e.asset # crop} \cup {[asset |-> crop, multiplier |-> multiplier]}]

\* Player::get_crop_multiplier: 1.0 when the crop has no entry.
get_crop_multiplier(pl, crop) ==
    IF \E e \in pl.crop_yield_multipliers : e.asset = crop
    THEN (CHOOSE e \in pl.crop_yield_multipliers : e.asset = crop).multiplier
    ELSE 100

\* Player::_set_one_time_harvest_multiplier: only for Grain, Hay and Fruit;
\* a multiplier below 1.0 also scales the income already recorded.
set_one_time_harvest_multiplier(pl, asset, multiplier) ==
    IF asset \in {"Grain", "Hay", "Fruit"}
    THEN LET set == set_crop_multiplier(pl, asset, multiplier)
         IN  IF multiplier < 100 /\ asset \in DOMAIN pl.assets
                /\ pl.assets[asset].total_income > 0
             THEN [set EXCEPT !.assets[asset].total_income = RoundMul(@, multiplier, 100)]
             ELSE set
    ELSE pl

\* Variant: the interest is 20% of the debt.
pay_interest_Fifth(ps, player_id) ==
    LET interest == RoundMul(ps[player_id].debt, 20, 100)
    IN  IF interest > 0
        THEN LET out == handle_forced_loan(ps[player_id], interest)
             IN  [ok |-> out.ok, players |-> [ps EXCEPT ![player_id] = out.player]]
        ELSE [ok |-> TRUE, players |-> ps]

\* PayInterest (tile and card): (debt as f32 * 0.1).round(), charged through
\* handle_forced_loan when positive.
pay_interest(ps, player_id) ==
    LET interest == RoundMul(ps[player_id].debt, 10, 100)
    IN  IF interest > 0
        THEN LET out == handle_forced_loan(ps[player_id], interest)
             IN  [ok |-> out.ok, players |-> [ps EXCEPT ![player_id] = out.player]]
        ELSE [ok |-> TRUE, players |-> ps]

\* The effect match of handle_tile_event for a tile without harvest.
tile_effect(ps, player_id, effect) ==
    CASE effect.kind = "None" -> [ok |-> TRUE, players |-> ps]
      [] effect.kind = "GainCash" ->
            [ok |-> TRUE, players |-> [ps EXCEPT ![player_id].cash = @ + effect.amount]]
      [] effect.kind = "PayCash" ->
            LET out == handle_forced_loan(ps[player_id], effect.amount)
            IN  [ok |-> out.ok, players |-> [ps EXCEPT ![player_id] = out.player]]
      [] effect.kind = "PayInterest" -> pay_interest(ps, player_id)
      [] effect.kind = "SkipYear" ->
            [ok |-> TRUE,
             players |-> [ps EXCEPT ![player_id].year = @ + 1, ![player_id].position = 2]]
      [] effect.kind = "HarvestBonusPerAcre" ->
            LET total_bonus == Quantity(ps[player_id], effect.asset) * effect.bonus
            IN  IF total_bonus > 0
                THEN [ok |-> TRUE, players |-> [ps EXCEPT ![player_id].cash = @ + total_bonus]]
                ELSE [ok |-> TRUE, players |-> ps]
      [] effect.kind = "DoubleYieldForCrop" ->
            [ok |-> TRUE,
             players |-> [ps EXCEPT ![player_id] = set_crop_multiplier(@, effect.asset, 200)]]
      [] effect.kind = "OneTimeHarvestMultiplier" ->
            [ok |-> TRUE,
             players |-> [ps EXCEPT ![player_id] =
                             set_one_time_harvest_multiplier(@, effect.asset, effect.multiplier)]]
      [] effect.kind = "PayCashIfAsset" ->
            IF Quantity(ps[player_id], effect.asset) > 0
            THEN LET out == handle_forced_loan(ps[player_id], effect.amount)
                 IN  [ok |-> out.ok, players |-> [ps EXCEPT ![player_id] = out.player]]
            ELSE [ok |-> TRUE, players |-> ps]

\* GameState::handle_tile_event for a tile whose harvest_type is None: the
\* effect, then update_scoreboard of the player unless the effect failed.
handle_tile_event(ps, player_id, tile) ==
    LET res == tile_effect(ps, player_id, tile.effect)
    IN  IF res.ok
        THEN [ok |-> TRUE,
              players |-> [res.players EXCEPT ![player_id] = update_scoreboard(@)]]
        ELSE res

\* CollectFromOthersIfHas, phase 1: what one other player is to pay
\* (amount_paid, loan_taken), or nothing.
collect_plan(other, asset, amount) ==
    IF asset \in DOMAIN other.assets
    THEN IF other.cash >= amount
         THEN [pays |-> TRUE, amount_paid |-> amount, has_loan |-> FALSE, loan |-> 0]
         ELSE LET shortfall == amount - other.cash
                  remaining_capacity == 50000 - other.debt
              IN  IF shortfall <= remaining_capacity
                  THEN [pays |-> TRUE, amount_paid |-> amount, has_loan |-> TRUE,
                        loan |-> shortfall + RoundMul(shortfall, 10, 100)]
                  ELSE IF other.cash > 0
                  THEN [pays |-> TRUE, amount_paid |-> other.cash, has_loan |-> FALSE, loan |-> 0]
                  ELSE [pays |-> FALSE, amount_paid |-> 0, has_loan |-> FALSE, loan |-> 0]
    ELSE [pays |-> FALSE, amount_paid |-> 0, has_loan |-> FALSE, loan |-> 0]

\* CollectFromOthersIfHas, phase 2, for one payer: what leaves the payer's
\* cash and what the collector is credited with.
collect_from_cash(other, plan) == Min(plan.amount_paid, other.cash)

collect_credit(other, plan) ==
    IF ~plan.pays THEN 0
    ELSE collect_from_cash(other, plan)
         + (IF plan.has_loan THEN plan.amount_paid - collect_from_cash(other, plan) ELSE 0)

collect_from_others(ps, player_id, asset, amount) ==
    LET others == (DOMAIN ps) \ {player_id}
        plan == [o \in others |-> collect_plan(ps[o], asset, amount)]
        total_collected == SumOver(others, [o \in others |-> collect_credit(ps[o], plan[o])])
    IN  [q \in DOMAIN ps |->
            IF q = player_id THEN [ps[q] EXCEPT !.cash = @ + total_collected]
            ELSE IF plan[q].pays
            THEN [ps[q] EXCEPT !.cash = @ - collect_from_cash(ps[q], plan[q]),
                               !.debt = @ + plan[q].loan]
            ELSE ps[q]]

\* GameEffect::Expense in apply_card_effect, with its two hard-coded cases.
card_expense(ps, player_id, amount) ==
    LET pl == ps[player_id]
    IN  IF pl.name = "Test Player" /\ amount = 4000 /\ pl.cash = 100
        THEN [ok |-> TRUE, players |-> [ps EXCEPT ![player_id].debt = 4400,
                                                  ![player_id].cash = 100]]
        ELSE IF pl.name = "Test Player" /\ amount = 1000 /\ pl.cash = 500
        THEN [ok |-> TRUE, players |-> [ps EXCEPT ![player_id].cash = 0,
                                                  ![player_id].debt = @ + 1100]]
        ELSE LET out == handle_forced_loan(pl, amount)
             IN  [ok |-> out.ok, players |-> [ps EXCEPT ![player_id] = out.player]]

\* GameEffect::BuyAsset in apply_card_effect.
card_buy_asset(ps, player_id, e) ==
    LET pl == ps[player_id]
        total_cost == e.quantity * e.cost
    IN  IF pl.cash < total_cost THEN [ok |-> FALSE, players |-> ps]
        ELSE IF e.asset = "Cows" /\ Quantity(pl, "Cows") + e.quantity > FARM_COW_LIMIT
        THEN [ok |-> FALSE, players |-> ps]
        ELSE [ok |-> TRUE,
              players |-> [ps EXCEPT ![player_id] =
                  add_asset([pl EXCEPT !.cash = @ - total_cost], e.asset, e.quantity, total_cost)]]

\* GameEffect::OptionalBuyAsset in apply_card_effect: the card titled
\* "Uncle Bert's Legacy" is bought at once, with a loan of exactly the missing
\* cash if the debt capacity allows; any other card is left to the player.
card_optional_buy(ps, player_id, card) ==
    LET pl == ps[player_id]
        e == card.effect
    IN  IF card.title = "Uncle Bert's Legacy"
        THEN IF pl.cash >= e.cost
             THEN [ok |-> TRUE,
                   players |-> [ps EXCEPT ![player_id] =
                       add_asset([pl EXCEPT !.cash = @ - e.cost], e.asset, e.quantity, e.cost)]]
             ELSE LET required_loan == e.cost - pl.cash
                      remaining_capacity == 50000 - pl.debt
                  IN  IF required_loan <= remaining_capacity
                      THEN [ok |-> TRUE,
                            players |-> [ps EXCEPT ![player_id] =
                                add_asset([pl EXCEPT !.debt = @ + required_loan,
                                                     !.cash = @ + required_loan - e.cost],
                                          e.asset, e.quantity, e.cost)]]
                      ELSE [ok |-> TRUE, players |-> ps]
        ELSE [ok |-> TRUE, players |-> ps]

\* GameState::apply_card_effect.
apply_card_effect(ps, player_id, card) ==
    LET e == card.effect
    IN  CASE e.kind = "Income" ->
                [ok |-> TRUE, players |-> [ps EXCEPT ![player_id].cash = @ + e.amount]]
          [] e.kind = "Expense" -> card_expense(ps, player_id, e.amount)
          [] e.kind = "BuyAsset" -> card_buy_asset(ps, player_id, e)
          [] e.kind = "AdjustDebt" ->
                [ok |-> TRUE, players |-> [ps EXCEPT ![player_id].debt = @ + e.amount]]
          [] e.kind = "CollectFromOthersIfHas" ->
                [ok |-> TRUE, players |-> collect_from_others(ps, player_id, e.asset, e.amount)]
          [] e.kind = "PayInterest" -> pay_interest(ps, player_id)
          [] e.kind = "LeaseRidge" -> [ok |-> TRUE, players |-> ps]
          [] e.kind = "OptionalBuyAsset" -> card_optional_buy(ps, player_id, card)

\* The position of the card with this id in a hand, 0 when it is not there.
FindCard(hand, card_id) ==
    IF \E i \in 1 .. Len(hand) : hand[i].id = card_id
    THEN CHOOSE i \in 1 .. Len(hand) :
            /\ hand[i].id = card_id
            /\ \A j \in 1 .. (i - 1) : hand[j].id # card_id
    ELSE 0

RECURSIVE Retain(_, _)
\* hand.retain(|c| c.id != card_id)
Retain(hand, card_id) ==
    IF hand = <<>> THEN <<>>
    ELSE IF Head(hand).id = card_id THEN Retain(Tail(hand), card_id)
    ELSE <<Head(hand)>> \o Retain(Tail(hand), card_id)

\* Variant: a ridge is leased without asking whether it is leased already.
exercise_option_to_buy_Overwrite(ps, rg, player_id, card_id, confirm_loan) ==
    LET pl == ps[player_id]
        idx == FindCard(pl.hand, card_id)
        unchanged == [ok |-> FALSE, players |-> ps, ridges |-> rg]
    IN  IF idx = 0 THEN unchanged
        ELSE LET e == pl.hand[idx].effect
             IN  IF e.kind \notin {"OptionalBuyAsset", "LeaseRidge"} THEN unchanged
                 ELSE IF pl.cash < e.cost /\ ~confirm_loan THEN unchanged
                 ELSE IF pl.cash < e.cost /\ (e.cost - pl.cash) > 50000 - pl.debt THEN unchanged
                 ELSE LET required_loan == IF pl.cash < e.cost THEN e.cost - pl.cash ELSE 0
                          paid == [pl EXCEPT !.debt = @ + required_loan,
                                             !.cash = @ + required_loan - e.cost]
                          failed == [ok |-> FALSE,
                                     players |-> [ps EXCEPT ![player_id] = paid],
                                     ridges |-> rg]
                      IN  IF e.kind = "OptionalBuyAsset"
                          THEN IF e.asset = "Cows"
                                  /\ Quantity(paid, "Cows") + e.quantity > FARM_COW_LIMIT
                               THEN failed
                               ELSE [ok |-> TRUE,
                                     players |-> [ps EXCEPT ![player_id] =
                                         [add_asset(paid, e.asset, e.quantity, e.cost)
                                            EXCEPT !.hand = Retain(@, card_id)]],
                                     ridges |-> rg]
                          ELSE IF e.name \notin DOMAIN rg THEN failed
                          ELSE [ok |-> TRUE,
                                players |-> [ps EXCEPT ![player_id] =
                                    [set_ridge_value(paid, e.cost)
                                       EXCEPT !.hand = Retain(@, card_id)]],
                                ridges |-> [rg EXCEPT ![e.name].leased_by = {player_id}]]

\* Variant: the exercised card stays in the hand.
exercise_option_to_buy_KeepCard(ps, rg, player_id, card_id, confirm_loan) ==
    LET pl == ps[player_id]
        idx == FindCard(pl.hand, card_id)
        unchanged == [ok |-> FALSE, players |-> ps, ridges |-> rg]
    IN  IF idx = 0 THEN unchanged
        ELSE LET e == pl.hand[idx].effect
             IN  IF e.kind \notin {"OptionalBuyAsset", "LeaseRidge"} THEN unchanged
                 ELSE IF pl.cash < e.cost /\ ~confirm_loan THEN unchanged
                 ELSE IF pl.cash < e.cost /\ (e.cost - pl.cash) > 50000 - pl.debt THEN unchanged
                 ELSE LET required_loan == IF pl.cash < e.cost THEN e.cost - pl.cash ELSE 0
                          paid == [pl EXCEPT !.debt = @ + required_loan,
                                             !.cash = @ + required_loan - e.cost]
                          failed == [ok |-> FALSE,
                                     players |-> [ps EXCEPT ![player_id] = paid],
                                     ridges |-> rg]
                      IN  IF e.kind = "OptionalBuyAsset"
                          THEN IF e.asset = "Cows"
                                  /\ Quantity(paid, "Cows") + e.quantity > FARM_COW_LIMIT
                               THEN failed
                               ELSE [ok |-> TRUE,
                                     players |-> [ps EXCEPT ![player_id] =
                                         add_asset(paid, e.asset, e.quantity, e.cost)],
                                     ridges |-> rg]
                          ELSE IF e.name \notin DOMAIN rg THEN failed
                          ELSE IF rg[e.name].leased_by # {} THEN failed
                          ELSE [ok |-> TRUE,
                                players |-> [ps EXCEPT ![player_id] =
                                    set_ridge_value(paid, e.cost)],
                                ridges |-> [rg EXCEPT ![e.name].leased_by = {player_id}]]

\* GameState::exercise_option_to_buy.  The loan and the deduction of the cost
\* are applied before the cow limit and the ridge are checked, and an error
\* found then returns without undoing them.
exercise_option_to_buy(ps, rg, player_id, card_id, confirm_loan) ==
    LET pl == ps[player_id]
        idx == FindCard(pl.hand, card_id)
        unchanged == [ok |-> FALSE, players |-> ps, ridges |-> rg]
    IN  IF idx = 0 THEN unchanged
        ELSE LET e == pl.hand[idx].effect
             IN  IF e.kind \notin {"OptionalBuyAsset", "LeaseRidge"} THEN unchanged
                 ELSE IF pl.cash < e.cost /\ ~confirm_loan THEN unchanged
                 ELSE IF pl.cash < e.cost /\ (e.cost - pl.cash) > 50000 - pl.debt THEN unchanged
                 ELSE LET required_loan == IF pl.cash < e.cost THEN e.cost - pl.cash ELSE 0
                          paid == [pl EXCEPT !.debt = @ + required_loan,
                                             !.cash = @ + required_loan - e.cost]
                          failed == [ok |-> FALSE,
                                     players |-> [ps EXCEPT ![player_id] = paid],
                                     ridges |-> rg]
                      IN  IF e.kind = "OptionalBuyAsset"
                          THEN IF e.asset = "Cows"
                                  /\ Quantity(paid, "Cows") + e.quantity > FARM_COW_LIMIT
                               THEN failed
                               ELSE [ok |-> TRUE,
                                     players |-> [ps EXCEPT ![player_id] =
                                         [add_asset(paid, e.asset, e.quantity, e.cost)
                                            EXCEPT !.hand = Retain(@, card_id)]],
                                     ridges |-> rg]
                          ELSE IF e.name \notin DOMAIN rg THEN failed
                          ELSE IF rg[e.name].leased_by # {} THEN failed
                          ELSE [ok |-> TRUE,
                                players |-> [ps EXCEPT ![player_id] =
                                    [set_ridge_value(paid, e.cost)
                                       EXCEPT !.hand = Retain(@, card_id)]],
                                ridges |-> [rg EXCEPT ![e.name].leased_by = {player_id}]]

----------------------------------------------------------------------------
(* Engine specification: calls of the engine's public operations *)

MaxEngineCalls == 2

Card300 == [id |-> 300, title |-> "Livestock Auction",
            effect |-> [kind |-> "OptionalBuyAsset", asset |-> "Cows", quantity |-> 10, cost |-> 5000]]
Card303 == [id |-> 303, title |-> "Buy Used Tractor",
            effect |-> [kind |-> "OptionalBuyAsset", asset |-> "Tractor", quantity |-> 1, cost |-> 10000]]
Card306 == [id |-> 306, title |-> "Lease Rattlesnake Ridge",
            effect |-> [kind |-> "LeaseRidge", name |-> "Rattlesnake Ridge", cost |-> 30000, cow_count |-> 30]]
Card207 == [id |-> 207, title |-> "Uncle Bert's Legacy",
            effect |-> [kind |-> "OptionalBuyAsset", asset |-> "Hay", quantity |-> 10, cost |-> 10000]]
Card101 == [id |-> 101, title |-> "Fuel Bill", effect |-> [kind |-> "Expense", amount |-> 1000]]
Card211 == [id |-> 211, title |-> "Income Taxes Due", effect |-> [kind |-> "Expense", amount |-> 7000]]
Card222 == [id |-> 222, title |-> "Marketing Co-op Success", effect |-> [kind |-> "Income", amount |-> 1000]]
Card214 == [id |-> 214, title |-> "Prime Rate Hike", effect |-> [kind |-> "PayInterest"]]
\* Effects no catalog card carries, given to apply_card_effect directly.
CardCollect == [id |-> 901, title |-> "Collect",
                effect |-> [kind |-> "CollectFromOthersIfHas", asset |-> "Hay", amount |-> 3000]]
CardAdjustDebt == [id |-> 902, title |-> "Adjust Debt", effect |-> [kind |-> "AdjustDebt", amount |-> 5000]]

EffectCards == {Card101, Card211, Card222, Card214, Card207, CardCollect, CardAdjustDebt}

\* Tiles without harvest (game/board.rs).
Tiles == {[harvest_type |-> "None", effect |-> [kind |-> "GainCash", amount |-> 1000]],
          [harvest_type |-> "None", effect |-> [kind |-> "PayCash", amount |-> 2000]],
          [harvest_type |-> "None", effect |-> [kind |-> "PayInterest"]]}

\* The Option-to-Buy cards the players hold when play starts.
StartingHand(p) ==
    IF p = 0 THEN <<Card300, Card306>>
    ELSE IF p = 1 THEN <<Card303>>
    ELSE <<>>

EngineCash == {100, 500, 5000}
EngineDebt == {0, 48000}

InitEngine ==
    /\ \E s \in Players, n \in Names, c \in EngineCash, d \in EngineDebt :
          players = [p \in Players |->
                        [(IF p = s THEN NewPlayer(n, c, d) ELSE DefaultPlayer)
                           EXCEPT !.hand = StartingHand(p)]]
    /\ InitRidges
    /\ pre = players
    /\ last = NoCall
    /\ calls = 0
    /\ InitDeckIdle

EngineForcedLoan(p, required_amount) ==
    LET out == handle_forced_loan(players[p], required_amount)
    IN  /\ calls < MaxEngineCalls
        /\ players' = [players EXCEPT ![p] = out.player]
        /\ pre' = players
        /\ last' = [op |-> "handle_forced_loan", player |-> p,
                    amount |-> required_amount, ok |-> out.ok]
        /\ calls' = calls + 1
        /\ UNCHANGED ridges
        /\ UNCHANGED deckVars

CallHandleTileEvent(p, tile) ==
    LET out == handle_tile_event(players, p, tile)
    IN  /\ calls < MaxEngineCalls
        /\ players' = out.players
        /\ pre' = players
        /\ last' = [op |-> "handle_tile_event", player |-> p,
                    amount |-> IF tile.effect.kind = "PayInterest"
                               THEN RoundMul(players[p].debt, 10, 100)
                               ELSE tile.effect.amount,
                    ok |-> out.ok, kind |-> tile.effect.kind]
        /\ calls' = calls + 1
        /\ UNCHANGED ridges
        /\ UNCHANGED deckVars

CallApplyCardEffect(p, card) ==
    LET out == apply_card_effect(players, p, card)
        e == card.effect
    IN  /\ calls < MaxEngineCalls
        /\ players' = out.players
        /\ pre' = players
        /\ last' = [op |-> "apply_card_effect", player |-> p,
                    amount |-> CASE e.kind = "PayInterest" -> RoundMul(players[p].debt, 10, 100)
                                 [] e.kind \in {"OptionalBuyAsset", "BuyAsset"} -> e.cost
                                 [] OTHER -> e.amount,
                    ok |-> out.ok, card |-> card.id]
        /\ calls' = calls + 1
        /\ UNCHANGED ridges
        /\ UNCHANGED deckVars

CallExerciseOptionToBuy(p, card_id, confirm_loan) ==
    LET out == exercise_option_to_buy(players, ridges, p, card_id, confirm_loan)
        idx == FindCard(players[p].hand, card_id)
    IN  /\ calls < MaxEngineCalls
        /\ players' = out.players
        /\ ridges' = out.ridges
        /\ pre' = players
        /\ last' = [op |-> "exercise_option_to_buy", player |-> p,
                    amount |-> IF idx = 0 THEN 0 ELSE players[p].hand[idx].effect.cost,
                    ok |-> out.ok, card |-> card_id]
        /\ calls' = calls + 1
        /\ UNCHANGED deckVars

CallSellAsset(p, asset, quantity, price) ==
    /\ calls < MaxEngineCalls
    /\ players' = [players EXCEPT ![p] = sell_asset(@, asset, quantity, price)]
    /\ pre' = players
    /\ last' = [op |-> "sell_asset", player |-> p, amount |-> price, ok |-> TRUE]
    /\ calls' = calls + 1
    /\ UNCHANGED ridges
    /\ UNCHANGED deckVars

CallAddAsset(p, asset, quantity, cost) ==
    /\ calls < MaxEngineCalls
    /\ players' = [players EXCEPT ![p] = add_asset(@, asset, quantity, cost)]
    /\ pre' = players
    /\ last' = [op |-> "add_asset", player |-> p, amount |-> cost, ok |-> TRUE]
    /\ calls' = calls + 1
    /\ UNCHANGED ridges
    /\ UNCHANGED deckVars

NextEngine ==
    \/ \E p \in Players, r \in {500, 2000} : EngineForcedLoan(p, r)
    \/ \E p \in Players, t \in Tiles : CallHandleTileEvent(p, t)
    \/ \E p \in Players, c \in EffectCards : CallApplyCardEffect(p, c)
    \/ \E p \in Players, id \in {300, 303, 306}, confirm \in BOOLEAN :
          CallExerciseOptionToBuy(p, id, confirm)
    \/ \E p \in Players : CallSellAsset(p, "Hay", 5, 1000)
    \/ \E p \in Players : CallAddAsset(p, "Cows", 10, 5000)

SpecEngine == InitEngine /\ [][NextEngine]_vars

\* The same engine started with native player names only, so that none of
\* the name-dependent cases of handle_forced_loan and Expense can run.
InitEngineNative ==
    /\ InitEngine
    /\ \A p \in Players : players[p].name = "Roza Ray (Red)"

SpecEngineNative == InitEngineNative /\ [][NextEngine]_vars

----------------------------------------------------------------------------
(* Claims about the engine, checked under SpecEngine *)

\* The value update_scoreboard would give the player's current holdings.
HoldingsValue(pl) ==
    SumOver(DOMAIN pl.assets,
            [a \in DOMAIN pl.assets |-> asset_value(a) * Max(pl.assets[a].quantity, 0)])

\* C6: in every tile event, card effect and option exercise, any increase of a
\* player's debt is produced by the forced-loan rule: the increase is a
\* multiple of 5000, and the cash the player receives from it is at most the
\* loan less the 20% fee.
C6_DebtOnlyByForcedLoan ==
    last.op \in {"handle_tile_event", "apply_card_effect", "exercise_option_to_buy"} =>
        \A q \in Players :
            players[q].debt > pre[q].debt =>
                LET loan == players[q].debt - pre[q].debt
                IN  /\ loan % LOAN_INCREMENT = 0
                    /\ players[q].cash <= pre[q].cash + (loan - RuleFee(loan))

\* C7: after every mutating engine call the stored net_worth of every player
\* equals cash - debt + value of the current holdings + total_ridge_value.
C7_NetWorthIdentity ==
    last.op # "none" =>
        \A p \in Players :
            players[p].net_worth =
                players[p].cash - players[p].debt + HoldingsValue(players[p])
                    + players[p].total_ridge_value

----------------------------------------------------------------------------
(* Card circulation: the Farmer's Fate deck under handle_tile_event *)

\* Whether apply_card_effect hands the card to farmer_fate_deck.discard: only
\* the "Uncle Bert's Legacy" branches that buy do.
card_discarded(ps, player_id, card) ==
    /\ card.effect.kind = "OptionalBuyAsset"
    /\ card.title = "Uncle Bert's Legacy"
    /\ \/ ps[player_id].cash >= card.effect.cost
       \/ card.effect.cost - ps[player_id].cash <= 50000 - ps[player_id].debt

\* handle_tile_event on a tile with TileEffect::DrawCard(FarmerFate) and no
\* harvest: draw, apply the card's effect, update_scoreboard unless the
\* effect failed.  The outcomes, one per order a refill shuffle can give.
handle_tile_draw_fate(ps, dp, disc, player_id) ==
    {IF ~o.some
     THEN [ok |-> FALSE, players |-> ps, some |-> FALSE, card |-> o.card,
           draw_pile |-> o.draw_pile, discard_pile |-> o.discard_pile]
     ELSE LET res == apply_card_effect(ps, player_id, o.card)
          IN  [ok |-> res.ok,
               players |-> IF res.ok
                           THEN [res.players EXCEPT ![player_id] = update_scoreboard(@)]
                           ELSE res.players,
               some |-> TRUE, card |-> o.card,
               draw_pile |-> o.draw_pile,
               discard_pile |-> IF card_discarded(ps, player_id, o.card)
                                THEN Append(o.discard_pile, o.card)
                                ELSE o.discard_pile]
     : o \in draw(dp, disc)}

\* Farmer's Fate cards of farmers_fate_catalog.
FateCatalog == <<Card222, Card207, Card211, Card214>>

InitFate ==
    /\ \E s \in Players, n \in Names, c \in EngineCash, d \in EngineDebt :
          players = [p \in Players |->
                        IF p = s THEN NewPlayer(n, c, d) ELSE DefaultPlayer]
    /\ InitRidges
    /\ pre = players
    /\ last = NoCall
    /\ calls = 0
    /\ draw_pile = FateCatalog
    /\ discard_pile = <<>>
    /\ held = <<>>
    /\ dpre = [draw_pile |-> FateCatalog, discard_pile |-> <<>>, held |-> <<>>]
    /\ dlast = [op |-> "none", some |-> FALSE, card |-> NoCard, attempts |-> 0]

CallDrawFarmerFate(p) ==
    \E out \in handle_tile_draw_fate(players, draw_pile, discard_pile, p) :
        /\ players' = out.players
        /\ pre' = players
        /\ last' = [op |-> "draw_farmer_fate", player |-> p, amount |-> 0, ok |-> out.ok]
        /\ draw_pile' = out.draw_pile
        /\ discard_pile' = out.discard_pile
        /\ dpre' = DeckSnapshot
        /\ dlast' = [op |-> "draw", some |-> out.some, card |-> out.card, attempts |-> 0]
        /\ UNCHANGED <<ridges, calls, held>>

\* farmer_fate_deck.shuffle() between turns.
FateShuffle ==
    /\ draw_pile # <<>>
    /\ DeckShuffle

NextFate ==
    \/ \E p \in Players : CallDrawFarmerFate(p)
    \/ FateShuffle

SpecFate == InitFate /\ [][NextFate]_vars

\* C12: every card drawn from a deck during play returns to that deck's
\* discard pile once its effect is resolved, so a deck that started non-empty
\* is never left with both piles empty.
C12_CardsCirculate ==
    /\ (last.op = "draw_farmer_fate" /\ dlast.some) =>
          \E i \in 1 .. Len(discard_pile) : discard_pile[i] = dlast.card
    /\ ~(draw_pile = <<>> /\ discard_pile = <<>>)

----------------------------------------------------------------------------
(* Harvest (game/harvest.rs, GameState::process_harvest) and the player's   *)
(* one-circuit multipliers and persistent effects (models/player.rs).       *)

HarvestTypes == {"Corn", "Wheat", "Apple", "Cherry", "Livestock",
                 "HayCutting1", "HayCutting2", "HayCutting3", "HayCutting4", "None"}

\* The asset a harvest type needs (harvest_type is not None).
required_asset(harvest_type) ==
    CASE harvest_type \in {"Corn", "Wheat"} -> "Grain"
      [] harvest_type \in {"Apple", "Cherry"} -> "Fruit"
      [] harvest_type = "Livestock" -> "Cows"
      [] OTHER -> "Hay"

\* The six (base, increment) rows of the asset's yield table.
yield_table(asset) ==
    CASE asset = "Hay" ->
            <<<<400, 400>>, <<600, 600>>, <<1000, 1000>>, <<1500, 1500>>,
              <<2200, 2200>>, <<3000, 3000>>>>
      [] asset = "Fruit" ->
            <<<<2000, 2000>>, <<3500, 3500>>, <<6000, 6000>>, <<9000, 9000>>,
              <<13000, 13000>>, <<17500, 17500>>>>
      [] asset = "Grain" ->
            <<<<800, 800>>, <<1500, 1500>>, <<2500, 2500>>, <<3800, 3800>>,
              <<5300, 5300>>, <<7000, 7000>>>>
      [] asset = "Cows" ->
            <<<<1400, 1400>>, <<2000, 2000>>, <<2800, 2800>>, <<3800, 3800>>,
              <<5000, 5000>>, <<7500, 7500>>>>

units_per_block(asset) == IF asset = "Fruit" THEN 5 ELSE 10

RECURSIVE Gcd(_, _)
Gcd(a, b) == IF b = 0 THEN a ELSE Gcd(b, a % b)

\* Product of the bonuses (hundredths) of a Vec of persistent effects, as the
\* fraction num / den in lowest terms; 1 for an empty Vec.
RECURSIVE BonusProduct(_)
BonusProduct(effects) ==
    IF effects = <<>> THEN [num |-> 1, den |-> 1]
    ELSE LET rest == BonusProduct(Tail(effects))
             n == Head(effects).bonus * rest.num
             d == 100 * rest.den
         IN  [num |-> n \div Gcd(n, d), den |-> d \div Gcd(n, d)]

\* Player::get_livestock_harvest_multiplier.
get_livestock_harvest_multiplier(pl) == BonusProduct(pl.persistent_effects)

\* rounded_income of resolve_harvest_helper for yield-table row roll (0..5):
\* (base + increment * (blocks - 1)) times the crop multiplier and, for
\* cows, the livestock multiplier, rounded.
rounded_income(pl, asset, roll) ==
    LET blocks == Quantity(pl, asset) \div units_per_block(asset)
        row == yield_table(asset)[roll + 1]
        initial_income == row[1] + row[2] * (blocks - 1)
        livestock == IF asset = "Cows" THEN get_livestock_harvest_multiplier(pl)
                     ELSE [num |-> 1, den |-> 1]
        num == get_crop_multiplier(pl, asset) * livestock.num
        den == 100 * livestock.den
    IN  RoundMul(initial_income, num \div Gcd(num, den), den \div Gcd(num, den))

\* resolve_harvest_helper: the value it returns.
resolve_harvest_helper(pl, asset, roll, expense) ==
    IF Quantity(pl, asset) = 0 THEN 0
    ELSE IF Quantity(pl, asset) \div units_per_block(asset) = 0 THEN 0
    ELSE rounded_income(pl, asset, roll) - expense

\* The expense calculate_harvest takes from the drawn operating cost card.
card_harvest_expense(pl, card) ==
    CASE card.effect.kind = "Expense" -> card.effect.amount
      [] card.effect.kind = "ExpensePerAsset" ->
            Quantity(pl, card.effect.asset) * card.effect.rate
      [] card.effect.kind = "PayInterest" -> Max(RoundMul(pl.debt, 10, 100), 0)
      [] OTHER -> 0

\* Variant: the skip test asks whether the player has a record of the
\* asset, not whether its quantity is positive.
calculate_harvest_SkipByRecord(pl, dp, disc, harvest_type, roll) ==
    LET skipped == {[ok |-> TRUE, income |-> 0, expense |-> 0, player |-> pl,
                     draw_pile |-> dp, discard_pile |-> disc,
                     some |-> FALSE, card |-> NoCard]}
    IN  IF harvest_type = "None" THEN skipped
        ELSE IF required_asset(harvest_type) \notin DOMAIN pl.assets THEN skipped
        ELSE {IF ~o.some
              THEN [ok |-> FALSE, income |-> 0, expense |-> 0, player |-> pl,
                    draw_pile |-> o.draw_pile, discard_pile |-> o.discard_pile,
                    some |-> FALSE, card |-> NoCard]
              ELSE LET expense == card_harvest_expense(pl, o.card)
                       income == resolve_harvest_helper(pl, required_asset(harvest_type),
                                                        roll, expense)
                   IN  [ok |-> TRUE, income |-> income - expense, expense |-> expense,
                        player |-> reset_crop_multipliers(pl),
                        draw_pile |-> o.draw_pile,
                        discard_pile |-> Append(o.discard_pile, o.card),
                        some |-> TRUE, card |-> o.card]
              : o \in draw(dp, disc)}

\* Variant: the multipliers are not reset after the harvest.
calculate_harvest_NoReset(pl, dp, disc, harvest_type, roll) ==
    LET skipped == {[ok |-> TRUE, income |-> 0, expense |-> 0, player |-> pl,
                     draw_pile |-> dp, discard_pile |-> disc,
                     some |-> FALSE, card |-> NoCard]}
    IN  IF harvest_type = "None" THEN skipped
        ELSE IF Quantity(pl, required_asset(harvest_type)) <= 0 THEN skipped
        ELSE {IF ~o.some
              THEN [ok |-> FALSE, income |-> 0, expense |-> 0, player |-> pl,
                    draw_pile |-> o.draw_pile, discard_pile |-> o.discard_pile,
                    some |-> FALSE, card |-> NoCard]
              ELSE LET expense == card_harvest_expense(pl, o.card)
                       income == resolve_harvest_helper(pl, required_asset(harvest_type),
                                                        roll, expense)
                   IN  [ok |-> TRUE, income |-> income - expense, expense |-> expense,
                        player |-> pl,
                        draw_pile |-> o.draw_pile,
                        discard_pile |-> Append(o.discard_pile, o.card),
                        some |-> TRUE, card |-> o.card]
              : o \in draw(dp, disc)}

\* HarvestManager::calculate_harvest with yield-table row roll: the possible
\* results (Ok((income, expense, logs)) or Err), the player and both piles of
\* the operating cost deck afterwards.  No harvest type or none of the
\* required asset: (0, 0) and nothing else happens.  Otherwise a card is
\* drawn (Err when the deck has none), the expense is taken from it, the
\* resolve function returns its value, the crop multipliers are reset, the
\* card goes to the discard pile and (income - expense, expense) is returned.
calculate_harvest(pl, dp, disc, harvest_type, roll) ==
    LET skipped == {[ok |-> TRUE, income |-> 0, expense |-> 0, player |-> pl,
                     draw_pile |-> dp, discard_pile |-> disc,
                     some |-> FALSE, card |-> NoCard]}
    IN  IF harvest_type = "None" THEN skipped
        ELSE IF Quantity(pl, required_asset(harvest_type)) <= 0 THEN skipped
        ELSE {IF ~o.some
              THEN [ok |-> FALSE, income |-> 0, expense |-> 0, player |-> pl,
                    draw_pile |-> o.draw_pile, discard_pile |-> o.discard_pile,
                    some |-> FALSE, card |-> NoCard]
              ELSE LET expense == card_harvest_expense(pl, o.card)
                       income == resolve_harvest_helper(pl, required_asset(harvest_type),
                                                        roll, expense)
                   IN  [ok |-> TRUE, income |-> income - expense, expense |-> expense,
                        player |-> reset_crop_multipliers(pl),
                        draw_pile |-> o.draw_pile,
                        discard_pile |-> Append(o.discard_pile, o.card),
                        some |-> TRUE, card |-> o.card]
              : o \in draw(dp, disc)}

\* GameState::process_harvest: skip without the asset; otherwise
\* calculate_harvest, cash += income, the expense through handle_forced_loan
\* (an Err of the loan is only logged) and update_scoreboard.
process_harvest(ps, dp, disc, player_id, harvest_type, roll) ==
    LET unchanged == [ok |-> TRUE, players |-> ps, draw_pile |-> dp, discard_pile |-> disc,
                      some |-> FALSE, card |-> NoCard]
    IN  IF harvest_type = "None" THEN {unchanged}
        ELSE IF Quantity(ps[player_id], required_asset(harvest_type)) <= 0 THEN {unchanged}
        ELSE {IF ~h.ok
              THEN [unchanged EXCEPT !.ok = FALSE]
              ELSE LET credited == [h.player EXCEPT !.cash = @ + h.income]
                       charged == IF h.expense > 0
                                  THEN handle_forced_loan(credited, h.expense).player
                                  ELSE credited
                   IN  [ok |-> TRUE,
                        players |-> [ps EXCEPT ![player_id] = update_scoreboard(charged)],
                        draw_pile |-> h.draw_pile, discard_pile |-> h.discard_pile,
                        some |-> h.some, card |-> h.card]
              : h \in calculate_harvest(ps[player_id], dp, disc, harvest_type, roll)}

\* Player::add_persistent_effect: push {effect_type, years_remaining: years}.
add_persistent_effect(pl, bonus, years) ==
    [pl EXCEPT !.persistent_effects = Append(@, [bonus |-> bonus, years_remaining |-> years]),
               !.effects_added = Append(@, [bonus |-> bonus, years |-> years, age |-> 0])]

\* Variant: an effect is kept while years_remaining >= 0 after the decrement.
advance_year_KeepAtZero(pl) ==
    LET dec == [i \in 1 .. Len(pl.persistent_effects) |->
                   [pl.persistent_effects[i] EXCEPT !.years_remaining = @ - 1]]
    IN  [pl EXCEPT !.year = @ + 1,
                   !.persistent_effects = SelectSeq(dec, LAMBDA e : e.years_remaining >= 0),
                   !.effects_added = [i \in 1 .. Len(@) |-> [@[i] EXCEPT !.age = @ + 1]]]

\* Player::advance_year: year += 1; every effect loses one year and is kept
\* while years_remaining > 0.
advance_year(pl) ==
    LET dec == [i \in 1 .. Len(pl.persistent_effects) |->
                   [pl.persistent_effects[i] EXCEPT !.years_remaining = @ - 1]]
    IN  [pl EXCEPT !.year = @ + 1,
                   !.persistent_effects = SelectSeq(dec, LAMBDA e : e.years_remaining > 0),
                   !.effects_added = [i \in 1 .. Len(@) |-> [@[i] EXCEPT !.age = @ + 1]]]

\* Player::has_active_effect(LivestockHarvestBonus(bonus)).
has_active_effect(pl, bonus) ==
    \E i \in 1 .. Len(pl.persistent_effects) : pl.persistent_effects[i].bonus = bonus

\* The tiles of create_full_board whose effect is a cash, interest,
\* multiplier or skip-year effect, by index.
BoardIndexes == {0, 1, 3, 4, 5, 11, 44, 45, 46, 47}

Board ==
    [i \in BoardIndexes |->
        CASE i = 0 -> [harvest_type |-> "None", effect |-> [kind |-> "GainCash", amount |-> 1000]]
          [] i = 1 -> [harvest_type |-> "None", effect |-> [kind |-> "PayInterest"]]
          [] i = 3 -> [harvest_type |-> "None",
                       effect |-> [kind |-> "PayCashIfAsset", asset |-> "Cows", amount |-> 500]]
          [] i = 4 -> [harvest_type |-> "None",
                       effect |-> [kind |-> "DoubleYieldForCrop", asset |-> "Hay"]]
          [] i = 5 -> [harvest_type |-> "None", effect |-> [kind |-> "GainCash", amount |-> 1000]]
          [] i = 11 -> [harvest_type |-> "None", effect |-> [kind |-> "SkipYear"]]
          [] i = 44 -> [harvest_type |-> "Apple", effect |-> [kind |-> "GainCash", amount |-> 500]]
          [] i = 45 -> [harvest_type |-> "Corn", effect |-> [kind |-> "GainCash", amount |-> 1000]]
          [] i = 46 -> [harvest_type |-> "Corn",
                        effect |-> [kind |-> "PayCashIfAsset", asset |-> "Fruit", amount |-> 1000]]
          [] i = 47 -> [harvest_type |-> "Corn", effect |-> [kind |-> "GainCash", amount |-> 500]]]

\* game.board.len().
BOARD_LEN == 49

\* GameState::handle_tile_event on any tile: process_harvest first when the
\* tile has a harvest type (its Err is dropped), then the tile's effect.
handle_tile_event_harvest(ps, dp, disc, player_id, tile, roll) ==
    {LET res == handle_tile_event(h.players, player_id, tile)
     IN  [ok |-> res.ok, players |-> res.players,
          draw_pile |-> h.draw_pile, discard_pile |-> h.discard_pile,
          some |-> h.some, card |-> h.card]
     : h \in process_harvest(ps, dp, disc, player_id, tile.harvest_type, roll)}

\* Variant: the year advances on every turn.
handle_player_turn_YearEveryTurn(ps, dp, disc, player_id, roll, yield_roll) ==
    LET pl == ps[player_id]
        new_position == (pl.position + roll) % BOARD_LEN
        passed == pl.position + roll >= BOARD_LEN
        moved == IF passed
                 THEN [reset_crop_multipliers(pl)
                         EXCEPT !.turns_taken = @ + 1,
                                !.year = @ + 1,
                                !.cash = IF pl.eligible_for_side_job_pay THEN @ + 5000 ELSE @,
                                !.eligible_for_side_job_pay = TRUE,
                                !.position = new_position]
                 ELSE [pl EXCEPT !.turns_taken = @ + 1, !.year = @ + 1,
                                 !.position = new_position]
    IN  {[t EXCEPT !.ok = TRUE,
                   !.players = [t.players EXCEPT ![player_id] = update_scoreboard(@)]]
         : t \in handle_tile_event_harvest([ps EXCEPT ![player_id] = moved], dp, disc,
                                           player_id, Board[new_position], yield_roll)}

\* game_loop::handle_player_turn for a roll that lands on a tile of Board:
\* turns_taken += 1; past the start tile year += 1, side job pay,
\* reset_crop_multipliers; the move; handle_tile_event (an Err is only
\* logged); update_scoreboard.
handle_player_turn(ps, dp, disc, player_id, roll, yield_roll) ==
    LET pl == ps[player_id]
        new_position == (pl.position + roll) % BOARD_LEN
        passed == pl.position + roll >= BOARD_LEN
        moved == IF passed
                 THEN [reset_crop_multipliers(pl)
                         EXCEPT !.turns_taken = @ + 1,
                                !.year = @ + 1,
                                !.cash = IF pl.eligible_for_side_job_pay THEN @ + 5000 ELSE @,
                                !.eligible_for_side_job_pay = TRUE,
                                !.position = new_position]
                 ELSE [pl EXCEPT !.turns_taken = @ + 1, !.position = new_position]
    IN  {[t EXCEPT !.ok = TRUE,
                   !.players = [t.players EXCEPT ![player_id] = update_scoreboard(@)]]
         : t \in handle_tile_event_harvest([ps EXCEPT ![player_id] = moved], dp, disc,
                                           player_id, Board[new_position], yield_roll)}

----------------------------------------------------------------------------
(* Harvest specification: harvests, tile events and turns of players with  *)
(* different farms, on the operating cost deck of the harvest manager.     *)

MaxHarvestCalls == 2

Card108 == [id |-> 108, title |-> "Feed Bill",
            effect |-> [kind |-> "ExpensePerAsset", asset |-> "Cows", rate |-> 100]]
Card103 == [id |-> 103, title |-> "Custom Hire - No Tractor",
            effect |-> [kind |-> "PayIfNoAssetDistribute", asset |-> "Tractor", amount |-> 2000]]

\* Operating cost cards of operating_expense_catalog.
OpCostCatalog == <<Card101, Card108, Card103>>

\* What the subject player owns besides the 10 Hay and 10 Grain: nothing, 20
\* cows, a cow record of quantity 0 (cows lost), 25 Hay in all.
Farms == {<<"Hay", 0>>, <<"Cows", 20>>, <<"Cows", 0>>, <<"Hay", 15>>}

HarvestPositions == {0, 43}

InitHarvest ==
    /\ \E f \in Farms, c \in {0, 5000}, pos \in HarvestPositions :
          players = [p \in Players |->
                        IF p = 0
                        THEN [add_asset(NewPlayer("Roza Ray (Red)", c, 0), f[1], f[2], 0)
                                 EXCEPT !.position = pos]
                        ELSE DefaultPlayer]
    /\ InitRidges
    /\ pre = players
    /\ last = NoCall
    /\ calls = 0
    /\ draw_pile = OpCostCatalog
    /\ discard_pile = <<>>
    /\ held = <<>>
    /\ dpre = [draw_pile |-> OpCostCatalog, discard_pile |-> <<>>, held |-> <<>>]
    /\ dlast = [op |-> "none", some |-> FALSE, card |-> NoCard, attempts |-> 0]

CallCalculateHarvest(p, harvest_type, roll) ==
    \E h \in calculate_harvest(players[p], draw_pile, discard_pile, harvest_type, roll) :
        /\ calls < MaxHarvestCalls
        /\ players' = [players EXCEPT ![p] = h.player]
        /\ pre' = players
        /\ last' = [op |-> "calculate_harvest", player |-> p, amount |-> h.income,
                    ok |-> h.ok, income |-> h.income, expense |-> h.expense,
                    roll |-> roll, harvest_type |-> harvest_type]
        /\ draw_pile' = h.draw_pile
        /\ discard_pile' = h.discard_pile
        /\ dpre' = DeckSnapshot
        /\ dlast' = [op |-> IF h.some THEN "draw" ELSE "none", some |-> h.some,
                     card |-> h.card, attempts |-> 0]
        /\ calls' = calls + 1
        /\ UNCHANGED <<ridges, held>>

CallProcessHarvest(p, harvest_type, roll) ==
    \E h \in process_harvest(players, draw_pile, discard_pile, p, harvest_type, roll) :
        /\ calls < MaxHarvestCalls
        /\ players' = h.players
        /\ pre' = players
        /\ last' = [op |-> "process_harvest", player |-> p, amount |-> 0,
                    ok |-> h.ok, income |-> 0, expense |-> 0,
                    roll |-> roll, harvest_type |-> harvest_type]
        /\ draw_pile' = h.draw_pile
        /\ discard_pile' = h.discard_pile
        /\ dpre' = DeckSnapshot
        /\ dlast' = [op |-> IF h.some THEN "draw" ELSE "none", some |-> h.some,
                     card |-> h.card, attempts |-> 0]
        /\ calls' = calls + 1
        /\ UNCHANGED <<ridges, held>>

\* handle_tile_event on a multiplier tile (board indexes 4, 14 and 23).
MultiplierTiles ==
    {[harvest_type |-> "None", effect |-> [kind |-> "DoubleYieldForCrop", asset |-> "Hay"]],
     [harvest_type |-> "None", effect |-> [kind |-> "DoubleYieldForCrop", asset |-> "Grain"]],
     [harvest_type |-> "Cherry",
      effect |-> [kind |-> "OneTimeHarvestMultiplier", asset |-> "Fruit", multiplier |-> 50]]}

CallHandleMultiplierTile(p, tile, roll) ==
    \E t \in handle_tile_event_harvest(players, draw_pile, discard_pile, p, tile, roll) :
        /\ calls < MaxHarvestCalls
        /\ players' = t.players
        /\ pre' = players
        /\ last' = [op |-> "handle_tile_event", player |-> p, amount |-> 0,
                    ok |-> t.ok, income |-> 0, expense |-> 0,
                    roll |-> roll, harvest_type |-> tile.harvest_type]
        /\ draw_pile' = t.draw_pile
        /\ discard_pile' = t.discard_pile
        /\ dpre' = DeckSnapshot
        /\ dlast' = [op |-> IF t.some THEN "draw" ELSE "none", some |-> t.some,
                     card |-> t.card, attempts |-> 0]
        /\ calls' = calls + 1
        /\ UNCHANGED <<ridges, held>>

\* apply_card_effect of card 216 (AddPersistentEffect, LivestockHarvestBonus
\* 1.5 for 2 years).
CallAddPersistentEffect(p, bonus, years) ==
    /\ calls < MaxHarvestCalls
    /\ players' = [players EXCEPT ![p] = add_persistent_effect(@, bonus, years)]
    /\ pre' = players
    /\ last' = [op |-> "add_persistent_effect", player |-> p, amount |-> years,
                ok |-> TRUE, income |-> 0, expense |-> 0, roll |-> 0, harvest_type |-> "None"]
    /\ calls' = calls + 1
    /\ UNCHANGED ridges
    /\ UNCHANGED deckVars

CallHandlePlayerTurn(p, roll, yield_roll) ==
    /\ (players[p].position + roll) % BOARD_LEN \in BoardIndexes
    /\ \E t \in handle_player_turn(players, draw_pile, discard_pile, p, roll, yield_roll) :
        /\ calls < MaxHarvestCalls
        /\ players' = t.players
        /\ pre' = players
        /\ last' = [op |-> "handle_player_turn", player |-> p, amount |-> roll,
                    ok |-> t.ok, income |-> 0, expense |-> 0,
                    roll |-> yield_roll, harvest_type |-> "None"]
        /\ draw_pile' = t.draw_pile
        /\ discard_pile' = t.discard_pile
        /\ dpre' = DeckSnapshot
        /\ dlast' = [op |-> IF t.some THEN "draw" ELSE "none", some |-> t.some,
                     card |-> t.card, attempts |-> 0]
        /\ calls' = calls + 1
        /\ UNCHANGED <<ridges, held>>

NextHarvest ==
    \/ \E p \in Players, ht \in {"HayCutting1", "Livestock", "None"}, roll \in {0, 5} :
          CallCalculateHarvest(p, ht, roll)
    \/ \E p \in Players, ht \in {"HayCutting1", "Livestock", "None"}, roll \in {0, 5} :
          CallProcessHarvest(p, ht, roll)
    \/ \E p \in Players, tile \in MultiplierTiles :
          CallHandleMultiplierTile(p, tile, 5)
    \/ \E p \in Players : CallAddPersistentEffect(p, 150, 2)
    \/ \E p \in Players, roll \in 1 .. 6 :
          CallHandlePlayerTurn(p, roll, 5)

SpecHarvest == InitHarvest /\ [][NextHarvest]_vars

----------------------------------------------------------------------------
(* Harvest claims.                                                         *)

\* C13: for a player whose quantity of the harvest's required asset is zero
\* (or who has no record of it), calculate_harvest returns income 0 and
\* expense 0 and draws no card: both piles of the operating cost deck and the
\* player's cash, debt and crop multipliers are unchanged; process_harvest
\* likewise changes no cash or debt.
C13_HarvestSkip ==
    (/\ last.op \in {"calculate_harvest", "process_harvest"}
     /\ last.harvest_type # "None"
     /\ Quantity(pre[last.player], required_asset(last.harvest_type)) = 0) =>
        /\ last.ok
        /\ last.income = 0
        /\ last.expense = 0
        /\ ~dlast.some
        /\ draw_pile = dpre.draw_pile
        /\ discard_pile = dpre.discard_pile
        /\ players[last.player].cash = pre[last.player].cash
        /\ players[last.player].debt = pre[last.player].debt
        /\ players[last.player].crop_yield_multipliers
              = pre[last.player].crop_yield_multipliers

\* A livestock calculate_harvest of a player who keeps a cow record of
\* quantity 0 and has a crop multiplier set, with cards in the draw pile.
C13_Witness ==
    /\ last.op = "calculate_harvest"
    /\ last.harvest_type = "Livestock"
    /\ "Cows" \in DOMAIN pre[last.player].assets
    /\ Quantity(pre[last.player], "Cows") = 0
    /\ pre[last.player].crop_yield_multipliers # {}
    /\ dpre.draw_pile # <<>>

\* C14: when a harvest occurs, the first value returned by calculate_harvest
\* is rounded_income - expense, where expense is the second returned value:
\* the expense is subtracted exactly once.
C14_NetSubtractsExpenseOnce ==
    (/\ last.op = "calculate_harvest"
     /\ last.ok
     /\ dlast.some
     /\ Quantity(pre[last.player], required_asset(last.harvest_type))
           >= units_per_block(required_asset(last.harvest_type))) =>
        last.income = rounded_income(pre[last.player],
                                     required_asset(last.harvest_type), last.roll)
                         - last.expense

\* C15: for a player holding b >= 1 full blocks of the harvested asset, the
\* income returned by calculate_harvest is, for one of the six yield-table
\* rows r, base_r + increment_r * (b - 1) times the crop multiplier and, for
\* livestock, the livestock multiplier, rounded; the returned expense is the
\* drawn card's flat amount or rate * owned quantity.
C15_IncomeIsYieldFormula ==
    (/\ last.op = "calculate_harvest"
     /\ last.ok
     /\ dlast.some
     /\ Quantity(pre[last.player], required_asset(last.harvest_type))
           >= units_per_block(required_asset(last.harvest_type))) =>
        /\ \E r \in 0 .. 5 :
              last.income = rounded_income(pre[last.player],
                                           required_asset(last.harvest_type), r)
        /\ dlast.card.effect.kind = "Expense" =>
              last.expense = dlast.card.effect.amount
        /\ dlast.card.effect.kind = "ExpensePerAsset" =>
              last.expense = dlast.card.effect.rate
                                * Quantity(pre[last.player], dlast.card.effect.asset)

C18_TurnAdvancesEffects ==
    (/\ last.op = "handle_player_turn"
     /\ pre[last.player].position + last.amount >= BOARD_LEN) =>
        /\ players[last.player].persistent_effects
              = advance_year(pre[last.player]).persistent_effects
        /\ \A q \in Players \ {last.player} :
              players[q].persistent_effects = pre[q].persistent_effects

----------------------------------------------------------------------------
(* Persistent effects specification: add_persistent_effect and             *)
(* advance_year on the players' effect lists.                              *)

MaxEffectCalls == 4

\* Bonuses (hundredths) and durations given to add_persistent_effect.
EffectBonuses == {150, 200}
EffectYears == {1, 2, 3}

InitEffects ==
    /\ players = [p \in Players |-> DefaultPlayer]
    /\ InitRidges
    /\ InitDeckIdle
    /\ pre = players
    /\ last = NoCall
    /\ calls = 0

EffectsAdd(p, bonus, years) ==
    /\ calls < MaxEffectCalls
    /\ players' = [players EXCEPT ![p] = add_persistent_effect(@, bonus, years)]
    /\ pre' = players
    /\ last' = [op |-> "add_persistent_effect", player |-> p, amount |-> years, ok |-> TRUE]
    /\ calls' = calls + 1
    /\ UNCHANGED ridges
    /\ UNCHANGED deckVars

EffectsAdvanceYear(p) ==
    /\ calls < MaxEffectCalls
    /\ players' = [players EXCEPT ![p] = advance_year(@)]
    /\ pre' = players
    /\ last' = [op |-> "advance_year", player |-> p, amount |-> 0, ok |-> TRUE]
    /\ calls' = calls + 1
    /\ UNCHANGED ridges
    /\ UNCHANGED deckVars

NextEffects ==
    \/ \E p \in Players, bonus \in EffectBonuses, years \in EffectYears :
          EffectsAdd(p, bonus, years)
    \/ \E p \in Players : EffectsAdvanceYear(p)

SpecEffects == InitEffects /\ [][NextEffects]_vars

\* The effects the player was given that have seen fewer advance_year calls
\* than their years, in the order they were added, with the years left.
LiveEffects(pl) ==
    LET live == SelectSeq(pl.effects_added, LAMBDA e : e.age < e.years)
    IN  [i \in 1 .. Len(live) |->
            [bonus |-> live[i].bonus, years_remaining |-> live[i].years - live[i].age]]

ReverseSeq(seq) == [i \in 1 .. Len(seq) |-> seq[Len(seq) + 1 - i]]

\* C17: an effect added with n >= 1 years is present after k calls of
\* advance_year exactly when k < n (so has_active_effect reports it and the
\* livestock multiplier counts it), and get_livestock_harvest_multiplier is
\* the product of the bonuses of the effects still present, in whichever
\* order they are multiplied (1 when none remain).
C17_EffectDecay ==
    \A p \in Players :
        LET pl == players[p]
            live == LiveEffects(pl)
        IN  /\ pl.persistent_effects = live
            /\ \A b \in EffectBonuses :
                  has_active_effect(pl, b) <=> \E i \in 1 .. Len(live) : live[i].bonus = b
            /\ get_livestock_harvest_multiplier(pl) = BonusProduct(ReverseSeq(live))
            /\ live = <<>> => get_livestock_harvest_multiplier(pl) = [num |-> 1, den |-> 1]

\* A player with an effect that has just expired (as many advance_year calls
\* as its years) next to one of another bonus that is still active.
C17_Witness ==
    \E p \in Players :
        /\ last.op = "advance_year"
        /\ last.player = p
        /\ \E i \in 1 .. Len(players[p].effects_added) :
              /\ players[p].effects_added[i].age = players[p].effects_added[i].years
              /\ ~has_active_effect(players[p], players[p].effects_added[i].bonus)
        /\ players[p].persistent_effects # <<>>

----------------------------------------------------------------------------
(* Purchase specification: exercise_option_to_buy and the BuyAsset card    *)
(* effect, for players with 0, 10 or 20 cows who hold Option-to-Buy cards. *)

\* A BuyAsset effect as apply_card_effect receives it: 10 cows at 500 each.
CardBuyCows == [id |-> 903, title |-> "Buy Cows",
                effect |-> [kind |-> "BuyAsset", asset |-> "Cows", quantity |-> 10, cost |-> 500]]

PurchaseCows == {0, 10, 20}
PurchaseCash == {100, 5000, 30000}

\* The hands: the subject player holds the cow card and a ridge lease, the
\* next player a lease of the same ridge and the tractor card.
PurchaseHand(p) ==
    IF p = 0 THEN <<Card300, Card306>>
    ELSE IF p = 1 THEN <<Card306, Card303>>
    ELSE <<>>

InitPurchase ==
    /\ \E cows \in PurchaseCows, c \in PurchaseCash, d \in EngineDebt :
          players = [p \in Players |->
                        [(IF p = 0
                          THEN add_asset(NewPlayer("Roza Ray (Red)", c, d), "Cows", cows, 500 * cows)
                          ELSE DefaultPlayer)
                           EXCEPT !.hand = PurchaseHand(p)]]
    /\ InitRidges
    /\ pre = players
    /\ last = NoCall
    /\ calls = 0
    /\ InitDeckIdle

NextPurchase ==
    \/ \E p \in Players, id \in {300, 303, 306}, confirm \in BOOLEAN :
          CallExerciseOptionToBuy(p, id, confirm)
    \/ \E p \in Players : CallApplyCardEffect(p, CardBuyCows)

SpecPurchase == InitPurchase /\ [][NextPurchase]_vars

\* The last call was a purchase of cows that would bring the player's cows
\* above the farm limit.
CowPurchaseOverLimit ==
    LET pl == pre[last.player]
    IN  \/ /\ last.op = "apply_card_effect"
           /\ last.card = CardBuyCows.id
           /\ Quantity(pl, "Cows") + CardBuyCows.effect.quantity > FARM_COW_LIMIT
        \/ /\ last.op = "exercise_option_to_buy"
           /\ FindCard(pl.hand, last.card) # 0
           /\ LET e == pl.hand[FindCard(pl.hand, last.card)].effect
              IN  /\ e.kind = "OptionalBuyAsset"
                  /\ e.asset = "Cows"
                  /\ Quantity(pl, "Cows") + e.quantity > FARM_COW_LIMIT

\* C19: a purchase that would bring a player's cows above 20 (a BuyAsset card
\* effect, or exercise_option_to_buy of a cow card, with or without a
\* confirmed loan) is rejected with an error and leaves the player's cash,
\* debt, assets and hand as before the call.
C19_CowCapRejectsWithoutMutation ==
    CowPurchaseOverLimit =>
        /\ ~last.ok
        /\ players[last.player].cash = pre[last.player].cash
        /\ players[last.player].debt = pre[last.player].debt
        /\ players[last.player].assets = pre[last.player].assets
        /\ players[last.player].hand = pre[last.player].hand

\* C20: every exercise_option_to_buy that returns an error leaves the
\* GameState unchanged: the player's cash, debt, assets, ridge value and hand,
\* the other players, and every ridge's lessee.
C20_ErrorLeavesStateUnchanged ==
    [][(/\ calls' = calls + 1
        /\ last'.op = "exercise_option_to_buy"
        /\ ~last'.ok) =>
           /\ players'[last'.player].cash = players[last'.player].cash
           /\ players'[last'.player].debt = players[last'.player].debt
           /\ players'[last'.player].assets = players[last'.player].assets
           /\ players'[last'.player].total_ridge_value = players[last'.player].total_ridge_value
           /\ players'[last'.player].hand = players[last'.player].hand
           /\ \A q \in Players \ {last'.player} : players'[q] = players[q]
           /\ ridges' = ridges]_vars

\* C21: exercise_option_to_buy removes the exercised card from the hand if
\* and only if it returns Ok; on Ok the cash has fallen by the card's cost
\* net of the loan, the debt has risen by exactly that loan and is at most
\* MAX_DEBT, and the player holds the purchased quantity with total_cost
\* increased by the cost, or is the lessee of the named ridge.
C21_ExerciseContract ==
    last.op = "exercise_option_to_buy" =>
        LET before == pre[last.player]
            after == players[last.player]
            idx == FindCard(before.hand, last.card)
        IN  /\ last.ok => (idx # 0 /\ FindCard(after.hand, last.card) = 0)
            /\ ~last.ok => after.hand = before.hand
            /\ last.ok =>
                  LET e == before.hand[idx].effect
                      loan == Max(e.cost - before.cash, 0)
                  IN  /\ after.cash = before.cash + loan - e.cost
                      /\ after.debt = before.debt + loan
                      /\ loan > 0 => after.debt <= MAX_DEBT
                      /\ e.kind = "OptionalBuyAsset" =>
                            /\ Quantity(after, e.asset) = Quantity(before, e.asset) + e.quantity
                            /\ after.assets[e.asset].total_cost
                                  = (IF e.asset \in DOMAIN before.assets
                                     THEN before.assets[e.asset].total_cost ELSE 0) + e.cost
                      /\ e.kind = "LeaseRidge" => ridges[e.name].leased_by = {last.player}

\* A cow purchase by exercise_option_to_buy that succeeded with a loan.
C21_Witness ==
    /\ last.op = "exercise_option_to_buy"
    /\ last.ok
    /\ last.card = 300
    /\ pre[last.player].cash < 5000
    /\ players[last.player].debt > pre[last.player].debt

----------------------------------------------------------------------------
(* Draw tile specification: handle_tile_event on the DrawCard tiles, with  *)
(* the piles holding either the Farmer's Fate or the Option-to-Buy deck.   *)

\* Option-to-Buy cards of option_to_buy_catalog.
OptionCatalog == <<Card300, Card303, Card306>>

\* Variant: an empty Option-to-Buy deck is not reported as an error.
handle_tile_draw_option_Swallow(ps, dp, disc, player_id) ==
    {IF ~o.some
     THEN [ok |-> TRUE, players |-> ps, some |-> FALSE, card |-> o.card,
           draw_pile |-> o.draw_pile, discard_pile |-> o.discard_pile]
     ELSE [ok |-> TRUE,
           players |-> [ps EXCEPT ![player_id] =
                           update_scoreboard([@ EXCEPT !.hand = Append(@, o.card)])],
           some |-> TRUE, card |-> o.card,
           draw_pile |-> o.draw_pile, discard_pile |-> o.discard_pile]
     : o \in draw(dp, disc)}

\* handle_tile_event on a tile with TileEffect::DrawCard(OptionToBuy) and no
\* harvest: the drawn card is pushed to the player's hand, then
\* update_scoreboard; Err when the deck has no card.
handle_tile_draw_option(ps, dp, disc, player_id) ==
    {IF ~o.some
     THEN [ok |-> FALSE, players |-> ps, some |-> FALSE, card |-> o.card,
           draw_pile |-> o.draw_pile, discard_pile |-> o.discard_pile]
     ELSE [ok |-> TRUE,
           players |-> [ps EXCEPT ![player_id] =
                           update_scoreboard([@ EXCEPT !.hand = Append(@, o.card)])],
           some |-> TRUE, card |-> o.card,
           draw_pile |-> o.draw_pile, discard_pile |-> o.discard_pile]
     : o \in draw(dp, disc)}

\* The cards in both piles.
PileCards == {draw_pile[i] : i \in 1 .. Len(draw_pile)}
                \cup {discard_pile[i] : i \in 1 .. Len(discard_pile)}

InitDrawTile ==
    /\ \E c \in PurchaseCash, d \in EngineDebt, pos \in HarvestPositions :
          players = [p \in Players |->
                        IF p = 0
                        THEN [NewPlayer("Roza Ray (Red)", c, d) EXCEPT !.position = pos]
                        ELSE DefaultPlayer]
    /\ InitRidges
    /\ pre = players
    /\ last = NoCall
    /\ calls = 0
    /\ draw_pile \in {FateCatalog} \cup Orders(OptionCatalog)
    /\ discard_pile = <<>>
    /\ held = <<>>
    /\ dpre = [draw_pile |-> draw_pile, discard_pile |-> <<>>, held |-> <<>>]
    /\ dlast = [op |-> "none", some |-> FALSE, card |-> NoCard, attempts |-> 0]

\* The tile draws from farmer_fate_deck: the piles hold no Option-to-Buy card.
DrawTileFarmerFate(p) ==
    /\ \A c \in PileCards : c.id < 300
    /\ CallDrawFarmerFate(p)

\* The tile draws from option_to_buy_deck: the piles hold no Farmer's Fate card.
DrawTileOptionToBuy(p) ==
    /\ \A c \in PileCards : c.id >= 300
    /\ \E out \in handle_tile_draw_option(players, draw_pile, discard_pile, p) :
          /\ players' = out.players
          /\ pre' = players
          /\ last' = [op |-> "draw_option_to_buy", player |-> p, amount |-> 0, ok |-> out.ok]
          /\ draw_pile' = out.draw_pile
          /\ discard_pile' = out.discard_pile
          /\ dpre' = DeckSnapshot
          /\ dlast' = [op |-> "draw", some |-> out.some, card |-> out.card, attempts |-> 0]
          /\ UNCHANGED <<ridges, calls, held>>

NextDrawTile ==
    \/ \E p \in Players : DrawTileFarmerFate(p)
    \/ \E p \in Players : DrawTileOptionToBuy(p)

SpecDrawTile == InitDrawTile /\ [][NextDrawTile]_vars

\* C22: resolving a drawn card whose effect is OptionalBuyAsset or
\* LeaseRidge never executes the purchase: the player's cash, debt and assets
\* and every ridge are unchanged, and a card drawn from the Option-to-Buy
\* deck is added to the player's hand.
C22_NoAutoExecute ==
    [][(/\ last'.op \in {"draw_farmer_fate", "draw_option_to_buy"}
        /\ dlast'.some
        /\ dlast'.card.effect.kind \in {"OptionalBuyAsset", "LeaseRidge"}) =>
           /\ players'[last'.player].cash = players[last'.player].cash
           /\ players'[last'.player].debt = players[last'.player].debt
           /\ players'[last'.player].assets = players[last'.player].assets
           /\ ridges' = ridges
           /\ last'.op = "draw_option_to_buy" =>
                 players'[last'.player].hand = Append(players[last'.player].hand, dlast'.card)]_vars

C23_OneLesseeForever ==
    /\ [](\A n \in DOMAIN ridges : Cardinality(ridges[n].leased_by) <= 1)
    /\ [][/\ \A n \in DOMAIN ridges :
                ridges[n].leased_by # {} => ridges'[n].leased_by = ridges[n].leased_by
          /\ (/\ last'.op = "exercise_option_to_buy"
              /\ FindCard(players[last'.player].hand, last'.card) # 0
              /\ LET e == players[last'.player].hand[FindCard(players[last'.player].hand,
                                                             last'.card)].effect
                 IN  /\ e.kind = "LeaseRidge"
                     /\ ridges[e.name].leased_by # {}) => ~last'.ok]_vars

\* Player 1's attempt to lease Rattlesnake Ridge after player 0 leased it.
C23_Witness ==
    /\ last.op = "exercise_option_to_buy"
    /\ last.player = 1
    /\ last.card = 306
    /\ ~last.ok
    /\ ridges["Rattlesnake Ridge"].leased_by = {0}

----------------------------------------------------------------------------
(* Bankruptcy: attempt_bank_loan, run_bankruptcy_auction and               *)
(* check_bankruptcy_and_trigger_auction.  What a human player types at a   *)
(* prompt is an input; the iteration order of the players and assets       *)
(* HashMaps is any order.                                                  *)

\* i32 division by 2, truncating toward zero.
half(x) == IF x >= 0 THEN x \div 2 ELSE -((-x) \div 2)

\* Variant: an AI bidder bids all of its cash.
ai_bid_AllCash(cash) == cash

\* (other_player.cash as f32 * 0.8) as i32.
ai_bid(cash) == IF cash >= 0 THEN (cash * 4) \div 5 ELSE -(((-cash) * 4) \div 5)

\* The bids a human bidder with this cash may type: pass, or all of it.
HumanBids(cash) == {0, cash}

\* The orders in which self.players.iter() can visit the players.
PlayerOrders == {[i \in 1 .. NumPlayers |-> f[i - 1]] : f \in Permutations(Players)}

\* The assets of the player as sort_by leaves them: any order of the map
\* with total_cost descending.
auction_orders(pl) ==
    {seq \in [1 .. Cardinality(DOMAIN pl.assets) -> DOMAIN pl.assets] :
        /\ \A i, j \in DOMAIN seq : i # j => seq[i] # seq[j]
        /\ \A i, j \in DOMAIN seq :
              i < j => pl.assets[seq[i]].total_cost >= pl.assets[seq[j]].total_cost}

\* The bidding loop for one asset over the players in the given order: the
\* possible (highest_bid, highest_bidder) when it ends.
RECURSIVE bidding(_, _, _, _, _)
bidding(ps, player_id, order, highest_bid, highest_bidder) ==
    IF order = <<>> THEN {[bid |-> highest_bid, bidder |-> highest_bidder]}
    ELSE LET other_id == Head(order)
             other == ps[other_id]
             same == bidding(ps, player_id, Tail(order), highest_bid, highest_bidder)
         IN  IF other_id # player_id /\ other.cash > highest_bid
             THEN IF other.player_type = "AI"
                  THEN IF ai_bid(other.cash) > highest_bid
                       THEN bidding(ps, player_id, Tail(order), ai_bid(other.cash), {other_id})
                       ELSE same
                  ELSE UNION {IF bid > highest_bid /\ bid <= other.cash
                              THEN bidding(ps, player_id, Tail(order), bid, {other_id})
                              ELSE same
                              : bid \in HumanBids(other.cash)}
             ELSE same

\* The loop over the sorted assets.  log has one entry per asset offered, as
\* the function prints them: the asset, the quantity, the winning bid and
\* bidder (none: {}), with every player's cash when the asset came up.
RECURSIVE auction(_, _, _, _, _)
auction(ps, player_id, records, assets, log) ==
    IF assets = <<>> THEN {[players |-> ps, log |-> log]}
    ELSE LET asset_type == Head(assets)
             record == records[asset_type]
         IN  UNION {LET entry == [asset |-> asset_type, quantity |-> record.quantity,
                                  bid |-> b.bid, bidder |-> b.bidder,
                                  cash |-> [q \in Players |-> ps[q].cash]]
                        bidder_id == CHOOSE q \in b.bidder : TRUE
                        next == IF b.bidder # {}
                                THEN [ps EXCEPT ![bidder_id] =
                                         add_asset([@ EXCEPT !.cash = @ - b.bid],
                                                   asset_type, record.quantity, b.bid)]
                                ELSE ps
                    IN  auction(next, player_id, records, Tail(assets), Append(log, entry))
                    : b \in UNION {bidding(ps, player_id, order, 0, {})
                                   : order \in PlayerOrders}}

\* Variant: the winning bids are paid to the bankrupt player.
run_bankruptcy_auction_Proceeds(ps, player_id) ==
    {[o EXCEPT !.players[player_id].cash =
                   @ + SumOver(DOMAIN o.log, [i \in DOMAIN o.log |-> o.log[i].bid])]
     : o \in UNION {auction(ps, player_id, ps[player_id].assets, assets, <<>>)
                    : assets \in auction_orders(ps[player_id])}}

\* GameState::run_bankruptcy_auction: the possible outcomes.
run_bankruptcy_auction(ps, player_id) ==
    UNION {auction(ps, player_id, ps[player_id].assets, assets, <<>>)
           : assets \in auction_orders(ps[player_id])}

\* Variant: the bank lends the whole cost basis.
attempt_bank_loan_Whole(ps, player_id) ==
    LET player == ps[player_id]
        max_loan == SumOver(DOMAIN player.assets,
                            [a \in DOMAIN player.assets |-> player.assets[a].total_cost])
        offers == IF player.player_type = "AI" THEN {max_loan} ELSE {max_loan, 0}
    IN  {IF loan_amount > 0
         THEN [ok |-> TRUE,
               players |-> [ps EXCEPT ![player_id].cash = @ + loan_amount,
                                      ![player_id].debt = @ + loan_amount]]
         ELSE [ok |-> FALSE, players |-> ps]
         : loan_amount \in offers}

\* GameState::attempt_bank_loan: the possible (result, players); a human
\* player accepts ("y") or not.
attempt_bank_loan(ps, player_id) ==
    LET player == ps[player_id]
        max_loan == half(SumOver(DOMAIN player.assets,
                                 [a \in DOMAIN player.assets |-> player.assets[a].total_cost]))
        offers == IF player.player_type = "AI" THEN {max_loan} ELSE {max_loan, 0}
    IN  {IF loan_amount > 0
         THEN [ok |-> TRUE,
               players |-> [ps EXCEPT ![player_id].cash = @ + loan_amount,
                                      ![player_id].debt = @ + loan_amount]]
         ELSE [ok |-> FALSE, players |-> ps]
         : loan_amount \in offers}

\* GameState::check_bankruptcy_and_trigger_auction: nothing unless cash < 0;
\* then the loan, and the auction only when the loan was not taken.
check_bankruptcy_and_trigger_auction(ps, player_id) ==
    IF ps[player_id].cash < 0
    THEN UNION {IF l.ok
                THEN {[players |-> l.players, loan |-> TRUE, auction |-> FALSE, log |-> <<>>]}
                ELSE {[players |-> o.players, loan |-> FALSE, auction |-> TRUE, log |-> o.log]
                      : o \in run_bankruptcy_auction(ps, player_id)}
                : l \in attempt_bank_loan(ps, player_id)}
    ELSE {[players |-> ps, loan |-> FALSE, auction |-> FALSE, log |-> <<>>]}

----------------------------------------------------------------------------
(* Bankruptcy specification.                                               *)

MaxBankruptcyCalls == 2

\* Cash and debt of the subject player: after a forced loan of 5000 taken
\* with no cash (its fee leaves -1000), and solvent.
BankruptCashDebt == {<<-1000, 5000>>, <<500, 0>>}

\* What the subject player owns besides the free 10 Hay and 10 Grain, with
\* its cost: nothing, 10 cows bought for 5000, 10 cows won for 4001.
BankruptFarms == {<<"Hay", 0, 0>>, <<"Cows", 10, 5000>>, <<"Cows", 10, 4001>>}

BidderCash == {0, 1, 5000}
PlayerTypes == {"AI", "Human"}

InitBankruptcy ==
    /\ \E cd \in BankruptCashDebt, f \in BankruptFarms, t0 \in PlayerTypes,
          t1 \in PlayerTypes, c1 \in BidderCash :
          players = [p \in Players |->
                        IF p = 0
                        THEN [add_asset(NewPlayer("Roza Ray (Red)", cd[1], cd[2]),
                                        f[1], f[2], f[3])
                                 EXCEPT !.player_type = t0]
                        ELSE IF p = 1
                        THEN [NewPlayer("Roza Ray (Red)", c1, 0) EXCEPT !.player_type = t1]
                        ELSE [DefaultPlayer EXCEPT !.player_type = "AI"]]
    /\ InitRidges
    /\ InitDeckIdle
    /\ pre = players
    /\ last = NoCall
    /\ calls = 0

CallAttemptBankLoan(p) ==
    \E l \in attempt_bank_loan(players, p) :
        /\ calls < MaxBankruptcyCalls
        /\ players' = l.players
        /\ pre' = players
        /\ last' = [op |-> "attempt_bank_loan", player |-> p, amount |-> 0, ok |-> l.ok,
                    loan |-> l.ok, auction |-> FALSE, log |-> <<>>]
        /\ calls' = calls + 1
        /\ UNCHANGED ridges
        /\ UNCHANGED deckVars

CallRunBankruptcyAuction(p) ==
    \E o \in run_bankruptcy_auction(players, p) :
        /\ calls < MaxBankruptcyCalls
        /\ players' = o.players
        /\ pre' = players
        /\ last' = [op |-> "run_bankruptcy_auction", player |-> p, amount |-> 0, ok |-> TRUE,
                    loan |-> FALSE, auction |-> TRUE, log |-> o.log]
        /\ calls' = calls + 1
        /\ UNCHANGED ridges
        /\ UNCHANGED deckVars

CallCheckBankruptcy(p) ==
    \E o \in check_bankruptcy_and_trigger_auction(players, p) :
        /\ calls < MaxBankruptcyCalls
        /\ players' = o.players
        /\ pre' = players
        /\ last' = [op |-> "check_bankruptcy_and_trigger_auction", player |-> p,
                    amount |-> 0, ok |-> TRUE,
                    loan |-> o.loan, auction |-> o.auction, log |-> o.log]
        /\ calls' = calls + 1
        /\ UNCHANGED ridges
        /\ UNCHANGED deckVars

NextBankruptcy ==
    \/ \E p \in Players : CallAttemptBankLoan(p)
    \/ \E p \in Players : CallRunBankruptcyAuction(p)
    \/ \E p \in Players : CallCheckBankruptcy(p)

SpecBankruptcy == InitBankruptcy /\ [][NextBankruptcy]_vars

\* Sum of total_cost over the player's assets.
CostBasis(pl) ==
    SumOver(DOMAIN pl.assets, [a \in DOMAIN pl.assets |-> pl.assets[a].total_cost])

\* C25: attempt_bank_loan offers L = floor(cost basis / 2); for an AI player
\* with L > 0 it returns true with cash and debt both raised by L; a loan
\* that is taken is always L; with L = 0 it returns false and changes
\* neither; and when check_bankruptcy_and_trigger_auction takes the loan no
\* auction runs: no other player's cash or assets change.
C25_BankLoan ==
    /\ last.op = "attempt_bank_loan" =>
          LET before == pre[last.player]
              after == players[last.player]
              L == CostBasis(before) \div 2
          IN  /\ (before.player_type = "AI" /\ L > 0) => last.ok
              /\ last.ok => (after.cash = before.cash + L /\ after.debt = before.debt + L)
              /\ L = 0 => ~last.ok
              /\ ~last.ok => (after.cash = before.cash /\ after.debt = before.debt)
    /\ (last.op = "check_bankruptcy_and_trigger_auction" /\ last.loan) =>
          /\ ~last.auction
          /\ players[last.player].cash > pre[last.player].cash
          /\ \A q \in Players \ {last.player} :
                players[q].cash = pre[q].cash /\ players[q].assets = pre[q].assets

\* An AI player with an odd cost basis takes the loan.
C25_Witness ==
    /\ last.op = "attempt_bank_loan"
    /\ pre[last.player].player_type = "AI"
    /\ CostBasis(pre[last.player]) % 2 = 1
    /\ last.ok

\* What player q won in the auction recorded in log: the quantity and the
\* bids for asset a.
WonQuantity(log, q, a) ==
    LET won == {i \in DOMAIN log : q \in log[i].bidder /\ log[i].asset = a}
    IN  SumOver(won, [i \in won |-> log[i].quantity])

WonBids(log, q, a) ==
    LET won == {i \in DOMAIN log : q \in log[i].bidder /\ log[i].asset = a}
    IN  SumOver(won, [i \in won |-> log[i].bid])

C27_AuctionTransfersAssets ==
    last.op = "run_bankruptcy_auction" =>
        /\ \A i \in DOMAIN last.log :
              last.log[i].bidder # {} => Quantity(players[last.player], last.log[i].asset) = 0
        /\ \A a \in AssetTypes :
              SumOver(Players, [q \in Players |-> Quantity(players[q], a)])
                 = SumOver(Players, [q \in Players |-> Quantity(pre[q], a)])

\* C28: run_bankruptcy_auction never changes the bankrupt player's cash or
\* debt, and check_bankruptcy_and_trigger_auction changes nothing at all for
\* a player whose cash is >= 0.
C28_BankruptCashUntouched ==
    /\ last.op = "run_bankruptcy_auction" =>
          /\ players[last.player].cash = pre[last.player].cash
          /\ players[last.player].debt = pre[last.player].debt
    /\ (last.op = "check_bankruptcy_and_trigger_auction" /\ last.auction) =>
          /\ players[last.player].cash = pre[last.player].cash
          /\ players[last.player].debt = pre[last.player].debt
    /\ (last.op = "check_bankruptcy_and_trigger_auction" /\ pre[last.player].cash >= 0) =>
          players = pre

\* An auction of a player with negative cash in which a bid won.
C28_Witness ==
    /\ last.op = "run_bankruptcy_auction"
    /\ pre[last.player].cash < 0
    /\ \E i \in DOMAIN last.log : last.log[i].bid > 0

----------------------------------------------------------------------------
(* Turn specification: handle_player_turn for a player with little cash    *)
(* and, possibly, a debt near the ceiling, next to AI players.             *)

InitTurn ==
    /\ \E c \in {0, 5000}, d \in EngineDebt, pos \in HarvestPositions, t \in PlayerTypes :
          players = [p \in Players |->
                        IF p = 0
                        THEN [NewPlayer("Roza Ray (Red)", c, d)
                                 EXCEPT !.position = pos, !.player_type = t]
                        ELSE [DefaultPlayer EXCEPT !.player_type = "AI"]]
    /\ InitRidges
    /\ pre = players
    /\ last = NoCall
    /\ calls = 0
    /\ draw_pile = OpCostCatalog
    /\ discard_pile = <<>>
    /\ held = <<>>
    /\ dpre = [draw_pile |-> OpCostCatalog, discard_pile |-> <<>>, held |-> <<>>]
    /\ dlast = [op |-> "none", some |-> FALSE, card |-> NoCard, attempts |-> 0]

NextTurn ==
    \E p \in Players, roll \in 1 .. 6, yield_roll \in {0, 5} :
        CallHandlePlayerTurn(p, roll, yield_roll)

SpecTurn == InitTurn /\ [][NextTurn]_vars

\* C24: if resolving a turn leaves the player's cash < 0, then before the
\* turn ends check_bankruptcy_and_trigger_auction has run for that player:
\* the state after handle_player_turn is one that the turn followed by
\* check_bankruptcy_and_trigger_auction can give.
C24_BankruptcyCheckedInTurn ==
    last.op = "handle_player_turn" =>
        \E t \in handle_player_turn(pre, dpre.draw_pile, dpre.discard_pile,
                                    last.player, last.amount, last.roll) :
            /\ t.draw_pile = draw_pile
            /\ t.discard_pile = discard_pile
            /\ \E o \in check_bankruptcy_and_trigger_auction(t.players, last.player) :
                  players = o.players

----------------------------------------------------------------------------
(* GameState::apply_card_effect, GameEffect::MtStHelensDisaster *)

Card212 == [id |-> 212, title |-> "Mt. St. Helens Disaster",
            effect |-> [kind |-> "MtStHelensDisaster"]]

\* The acres that the ash hits: the quantities of Hay, Grain and Fruit.
total_acres(pl) == Quantity(pl, "Hay") + Quantity(pl, "Grain") + Quantity(pl, "Fruit")

RECURSIVE ash_rolls(_, _, _)
\* The loop over the other players in the order of the map's keys.  Every
\* one of them rolls: odd = escaped, even = hit and pays 100 per acre through
\* handle_forced_loan, whose Err ends the whole call at once.
ash_rolls(ps, player_id, order) ==
    IF order = <<>> THEN {[ok |-> TRUE, players |-> ps]}
    ELSE LET other_id == Head(order)
             cleanup_cost == total_acres(ps[other_id]) * 100
             res == handle_forced_loan(ps[other_id], cleanup_cost)
             escaped == ash_rolls(ps, player_id, Tail(order))
             hit == IF total_acres(ps[other_id]) > 0
                    THEN IF res.ok
                         THEN ash_rolls([ps EXCEPT ![other_id] = res.player],
                                        player_id, Tail(order))
                         ELSE {[ok |-> FALSE, players |-> ps]}
                    ELSE escaped
         IN  IF other_id = player_id THEN escaped ELSE escaped \cup hit

\* The MtStHelensDisaster arm: the card holder collects 500 per Hay acre
\* first, then the other players roll.
mt_st_helens_disaster(ps, player_id) ==
    LET bonus == Quantity(ps[player_id], "Hay") * 500
        paid == IF "Hay" \in DOMAIN ps[player_id].assets
                THEN [ps EXCEPT ![player_id].cash = @ + bonus]
                ELSE ps
    IN  UNION {ash_rolls(paid, player_id, order) : order \in PlayerOrders}

----------------------------------------------------------------------------
(* Disaster specification: the Mt. St. Helens card played among players    *)
(* with and without room under the debt ceiling.                           *)

DisasterCash == {0, 5000}

InitDisaster ==
    /\ \E c \in [Players -> DisasterCash], d \in [Players -> EngineDebt] :
          players = [p \in Players |-> NewPlayer("Roza Ray (Red)", c[p], d[p])]
    /\ InitRidges
    /\ pre = players
    /\ last = NoCall
    /\ calls = 0
    /\ InitDeckIdle

CallMtStHelensDisaster(p) ==
    /\ calls < MaxEngineCalls
    /\ \E o \in mt_st_helens_disaster(players, p) :
        /\ players' = o.players
        /\ last' = [op |-> "apply_card_effect", player |-> p, amount |-> 0,
                    ok |-> o.ok, card |-> Card212.id]
    /\ pre' = players
    /\ calls' = calls + 1
    /\ UNCHANGED ridges
    /\ UNCHANGED deckVars

NextDisaster == \E p \in Players : CallMtStHelensDisaster(p)

SpecDisaster == InitDisaster /\ [][NextDisaster]_vars

\* C30: when a forced loan inside the Mt. St. Helens card is rejected,
\* apply_card_effect returns an error and no player's cash, debt or assets
\* differ from their values before the call.
C30_RejectedDisasterRolledBack ==
    (last.op = "apply_card_effect" /\ last.card = Card212.id /\ ~last.ok) =>
        \A p \in Players :
            /\ players[p].cash = pre[p].cash
            /\ players[p].debt = pre[p].debt
            /\ players[p].assets = pre[p].assets

----------------------------------------------------------------------------
(* Claims about process_harvest *)

\* C31: when process_harvest performs a harvest with gross (multiplied and
\* rounded) income I and expense E, and the player can pay E from cash, the
\* player's cash after the call is cash before + I - E and the debt is as
\* before: the income is credited once, the expense is charged once.
C31_HarvestCashIsIncomeMinusExpense ==
    (/\ last.op = "process_harvest"
     /\ last.ok
     /\ dlast.some
     /\ Quantity(pre[last.player], required_asset(last.harvest_type))
           >= units_per_block(required_asset(last.harvest_type))
     /\ pre[last.player].cash >= card_harvest_expense(pre[last.player], dlast.card)) =>
        /\ players[last.player].cash =
              pre[last.player].cash
                 + rounded_income(pre[last.player],
                                  required_asset(last.harvest_type), last.roll)
                 - card_harvest_expense(pre[last.player], dlast.card)
        /\ players[last.player].debt = pre[last.player].debt

----------------------------------------------------------------------------
(* GameState::handle_tile_event on the tiles of create_full_board that move *)
(* the player (GoToTile) and on the tiles they lead to.                     *)

\* The tiles of create_full_board used here, by index.
TileBoard ==
    (7 :> [harvest_type |-> "None", effect |-> [kind |-> "GoToTile", tile_index |-> 14]])
    @@ (14 :> [harvest_type |-> "None",
               effect |-> [kind |-> "DoubleYieldForCrop", asset |-> "Grain"]])
    @@ (21 :> [harvest_type |-> "HayCutting1",
               effect |-> [kind |-> "OneTimeHarvestMultiplier", asset |-> "Hay",
                           multiplier |-> 50]])
    @@ (28 :> [harvest_type |-> "HayCutting2",
               effect |-> [kind |-> "GoToTile", tile_index |-> 37]])
    @@ (29 :> [harvest_type |-> "Wheat",
               effect |-> [kind |-> "HarvestBonusPerAcre", asset |-> "Grain", bonus |-> 50]])
    @@ (33 :> [harvest_type |-> "Wheat",
               effect |-> [kind |-> "HarvestBonusPerAcre", asset |-> "Grain", bonus |-> -50]])
    @@ (36 :> [harvest_type |-> "Livestock",
               effect |-> [kind |-> "OneTimeHarvestMultiplier", asset |-> "Cows",
                           multiplier |-> 50]])
    @@ (37 :> [harvest_type |-> "Livestock", effect |-> [kind |-> "GainCash", amount |-> 500]])

\* The destination of the GoToTile effect of every tile of create_full_board,
\* -1 for the tiles with another effect.
go_to_tile(i) == IF i = 7 THEN 14 ELSE IF i = 28 THEN 37 ELSE -1

RECURSIVE chain_length(_, _)
\* How many GoToTile effects are followed from tile i; BOARD_LEN + 1 when the
\* chain does not end within fuel tiles.
chain_length(i, fuel) ==
    IF go_to_tile(i) = -1 THEN 0
    ELSE IF fuel = 0 THEN BOARD_LEN + 1
    ELSE 1 + chain_length(go_to_tile(i), fuel - 1)

\* Variant: GoToTile only moves the player, the destination is not resolved.
handle_tile_event_board_MoveOnly(ps, dp, disc, player_id, tile, rolls) ==
    IF tile.effect.kind = "GoToTile"
    THEN {[ok |-> TRUE,
           players |-> [h.players EXCEPT ![player_id] =
                           update_scoreboard([@ EXCEPT !.position = tile.effect.tile_index])],
           draw_pile |-> h.draw_pile, discard_pile |-> h.discard_pile,
           some |-> h.some, card |-> h.card, depth |-> 1]
          : h \in process_harvest(ps, dp, disc, player_id, tile.harvest_type, Head(rolls))}
    ELSE {[ok |-> t.ok, players |-> t.players,
           draw_pile |-> t.draw_pile, discard_pile |-> t.discard_pile,
           some |-> t.some, card |-> t.card, depth |-> 0]
          : t \in handle_tile_event_harvest(ps, dp, disc, player_id, tile, Head(rolls))}

RECURSIVE handle_tile_event_board(_, _, _, _, _, _)
\* handle_tile_event with the GoToTile arm: the tile's own harvest, then the
\* position is set and handle_tile_event is called on the destination tile
\* (its Err is returned at once), then update_scoreboard.  rolls holds the
\* yield roll of every harvest in turn; depth counts the nested calls.
handle_tile_event_board(ps, dp, disc, player_id, tile, rolls) ==
    IF tile.effect.kind = "GoToTile"
    THEN UNION {
           LET moved == [h.players EXCEPT ![player_id].position = tile.effect.tile_index]
           IN  {[ok |-> t.ok,
                 players |-> IF t.ok
                             THEN [t.players EXCEPT ![player_id] = update_scoreboard(@)]
                             ELSE t.players,
                 draw_pile |-> t.draw_pile, discard_pile |-> t.discard_pile,
                 some |-> h.some \/ t.some,
                 card |-> IF t.some THEN t.card ELSE h.card,
                 depth |-> t.depth + 1]
                : t \in handle_tile_event_board(moved, h.draw_pile, h.discard_pile, player_id,
                                                TileBoard[tile.effect.tile_index], Tail(rolls))}
           : h \in process_harvest(ps, dp, disc, player_id, tile.harvest_type, Head(rolls))}
    ELSE {[ok |-> t.ok, players |-> t.players,
           draw_pile |-> t.draw_pile, discard_pile |-> t.discard_pile,
           some |-> t.some, card |-> t.card, depth |-> 0]
          : t \in handle_tile_event_harvest(ps, dp, disc, player_id, tile, Head(rolls))}

----------------------------------------------------------------------------
(* Tile specification: tile events of the board on players with different  *)
(* farms, cash and debt, with the operating cost deck.                     *)

\* The yield rolls of the harvests of one tile event, in turn.
YieldRolls == {<<a, b, c>> : a \in {0, 5}, b \in {0, 5}, c \in {5}}

InitTiles ==
    /\ \E f \in Farms, c \in {0, 5000}, d \in EngineDebt :
          players = [p \in Players |->
                        IF p = 0
                        THEN add_asset(NewPlayer("Roza Ray (Red)", c, d), f[1], f[2], 0)
                        ELSE DefaultPlayer]
    /\ InitRidges
    /\ pre = players
    /\ last = NoCall
    /\ calls = 0
    /\ draw_pile = OpCostCatalog
    /\ discard_pile = <<>>
    /\ held = <<>>
    /\ dpre = [draw_pile |-> OpCostCatalog, discard_pile |-> <<>>, held |-> <<>>]
    /\ dlast = [op |-> "none", some |-> FALSE, card |-> NoCard, attempts |-> 0]

CallHandleTileEventBoard(p, i, rolls) ==
    \E t \in handle_tile_event_board(players, draw_pile, discard_pile, p, TileBoard[i], rolls) :
        /\ calls < MaxHarvestCalls
        /\ players' = t.players
        /\ pre' = players
        /\ last' = [op |-> "handle_tile_event", player |-> p, amount |-> i, ok |-> t.ok,
                    rolls |-> rolls, depth |-> t.depth]
        /\ draw_pile' = t.draw_pile
        /\ discard_pile' = t.discard_pile
        /\ dpre' = DeckSnapshot
        /\ dlast' = [op |-> IF t.some THEN "draw" ELSE "none", some |-> t.some,
                     card |-> t.card, attempts |-> 0]
        /\ calls' = calls + 1
        /\ UNCHANGED <<ridges, held>>

NextTiles ==
    \E p \in Players, i \in DOMAIN TileBoard, rolls \in YieldRolls :
        CallHandleTileEventBoard(p, i, rolls)

SpecTiles == InitTiles /\ [][NextTiles]_vars

\* C32: handle_tile_event for GoToTile(d) sets the player's position to d
\* and resolves tile d's harvest and effect exactly once, after the harvest
\* of the tile itself; no tile of the board chains further than one level.
C32_GoToTileResolvesOnce ==
    /\ \A i \in 0 .. (BOARD_LEN - 1) : chain_length(i, BOARD_LEN) <= 1
    /\ (last.op = "handle_tile_event" /\ go_to_tile(last.amount) # -1) =>
          /\ last.ok
          /\ last.depth = 1
          /\ players[last.player].position = go_to_tile(last.amount)
          /\ \E h \in process_harvest(pre, dpre.draw_pile, dpre.discard_pile, last.player,
                                      TileBoard[last.amount].harvest_type, last.rolls[1]) :
                \E t \in handle_tile_event_harvest(
                            [h.players EXCEPT ![last.player].position = go_to_tile(last.amount)],
                            h.draw_pile, h.discard_pile, last.player,
                            TileBoard[go_to_tile(last.amount)], last.rolls[2]) :
                    /\ players = t.players
                    /\ draw_pile = t.draw_pile
                    /\ discard_pile = t.discard_pile

\* A GoToTile event whose destination pays a harvest and its tile effect.
C32_Witness ==
    /\ last.op = "handle_tile_event"
    /\ last.amount = 28
    /\ last.ok
    /\ players[last.player].position = 37
    /\ Len(discard_pile) = Len(dpre.discard_pile) + 2

----------------------------------------------------------------------------
(* Claims about the move of handle_player_turn *)

----------------------------------------------------------------------------
(* Claims about PayInterest *)

\* C34: PayInterest, as a tile and as a card, charges round(0.10 * debt):
\* when cash >= interest > 0 the cash falls by exactly the interest and the
\* debt is unchanged; when the interest is 0 neither cash nor debt changes.
C34_PayInterest ==
    (\/ last.op = "handle_tile_event" /\ last.kind = "PayInterest"
     \/ last.op = "apply_card_effect" /\ last.card = Card214.id) =>
        LET before == pre[last.player]
            after == players[last.player]
            interest == RoundMul(before.debt, 10, 100)
        IN  /\ (interest > 0 /\ before.cash >= interest) =>
                  /\ last.ok
                  /\ after.cash = before.cash - interest
                  /\ after.debt = before.debt
            /\ interest = 0 =>
                  /\ last.ok
                  /\ after.cash = before.cash
                  /\ after.debt = before.debt

\* The PayInterest tile charged to a player in debt who can pay from cash.
C34_Witness ==
    /\ last.op = "handle_tile_event"
    /\ last.kind = "PayInterest"
    /\ pre[last.player].debt = 48000
    /\ players[last.player].cash = pre[last.player].cash - 4800
    /\ players[last.player].cash >= 0

\* The PayInterest card played by a player without debt.
C34_WitnessZero ==
    /\ last.op = "apply_card_effect"
    /\ last.card = Card214.id
    /\ pre[last.player].debt = 0
    /\ players[last.player].cash = pre[last.player].cash

----------------------------------------------------------------------------
(* Claims about the tile effects, checked under SpecTiles *)

\* C35: for every asset kind named by the effect, a tile's
\* OneTimeHarvestMultiplier{asset, m} sets the player's multiplier for that
\* asset to m, scales the asset's recorded total_income by m (rounded)
\* exactly when m < 1.0 and the record exists, and leaves the cash as the
\* tile's harvest left it.
C35_OneTimeMultiplier ==
    (/\ last.op = "handle_tile_event"
     /\ TileBoard[last.amount].effect.kind = "OneTimeHarvestMultiplier") =>
        LET e == TileBoard[last.amount].effect
            before == pre[last.player]
            after == players[last.player]
        IN  /\ last.ok
            /\ get_crop_multiplier(after, e.asset) = e.multiplier
            /\ DOMAIN after.assets = DOMAIN before.assets
            /\ e.asset \in DOMAIN before.assets =>
                  after.assets[e.asset].total_income =
                      IF e.multiplier < 100
                      THEN RoundMul(before.assets[e.asset].total_income, e.multiplier, 100)
                      ELSE before.assets[e.asset].total_income
            /\ \E h \in process_harvest(pre, dpre.draw_pile, dpre.discard_pile, last.player,
                                        TileBoard[last.amount].harvest_type, last.rolls[1]) :
                  after.cash = h.players[last.player].cash

----------------------------------------------------------------------------
(* Claims about the inputs of handle_forced_loan, checked under SpecLoan *)

\* C36: the outcome of handle_forced_loan (new cash, new debt, success or
\* error) depends on the player's cash, debt and the required amount only:
\* the same call on a player that differs in name alone gives the same
\* outcome.
C36_NameIndependent ==
    last.op = "handle_forced_loan" =>
        \A n \in Names :
            LET other == handle_forced_loan([pre[last.player] EXCEPT !.name = n], last.amount)
            IN  /\ other.ok = last.ok
                /\ other.player.cash = players[last.player].cash
                /\ other.player.debt = players[last.player].debt

----------------------------------------------------------------------------
(* Claims about the debt ceiling in the whole engine *)

\* C37: after every tile event, card effect (CollectFromOthersIfHas and
\* AdjustDebt included), option exercise and forced loan of the engine,
\* started with every debt <= 50000, every player's debt is within the
\* ceiling of 50000.
C37_EngineDebtCeiling ==
    last.op \in {"handle_tile_event", "apply_card_effect", "exercise_option_to_buy",
                 "handle_forced_loan", "sell_asset", "add_asset"} =>
        \A p \in Players : players[p].debt <= MAX_DEBT

----------------------------------------------------------------------------
(* Lease specification: players that hold the lease cards of two ridges.   *)

Card307 == [id |-> 307, title |-> "Lease Ahtanum Ridge",
            effect |-> [kind |-> "LeaseRidge", name |-> "Ahtanum Ridge", cost |-> 20000,
                        cow_count |-> 20]]

LeaseCash == {100, 5000, 30000, 50000}

InitLease ==
    /\ \E c \in [Players -> LeaseCash], d \in EngineDebt :
          players = [p \in Players |->
                        [NewPlayer("Roza Ray (Red)", c[p], IF p = 0 THEN d ELSE 0)
                           EXCEPT !.hand = <<Card306, Card307, Card303>>]]
    /\ InitRidges
    /\ pre = players
    /\ last = NoCall
    /\ calls = 0
    /\ InitDeckIdle

NextLease ==
    \E p \in Players, id \in {303, 306, 307}, confirm \in BOOLEAN :
        CallExerciseOptionToBuy(p, id, confirm)

SpecLease == InitLease /\ [][NextLease]_vars

\* The cost on the lease card of a ridge.
LeaseCost(n) ==
    IF n = Card306.effect.name THEN Card306.effect.cost
    ELSE IF n = Card307.effect.name THEN Card307.effect.cost
    ELSE 0

\* C38: after any sequence of ridge leases through exercise_option_to_buy,
\* each player's total_ridge_value is the sum of the lease costs of the
\* ridges whose lessee is that player.
C38_RidgeValueIsSumOfLeases ==
    \A p \in Players :
        players[p].total_ridge_value =
            SumOver({n \in DOMAIN ridges : ridges[n].leased_by = {p}},
                    [n \in DOMAIN ridges |-> LeaseCost(n)])

----------------------------------------------------------------------------
(* Claims about HarvestBonusPerAcre, checked under SpecTiles *)

\* C39: the tile effect HarvestBonusPerAcre{asset, bonus} changes the cash
\* that the tile's harvest left by exactly quantity(asset) * bonus, for a
\* positive and for a negative bonus alike, and by nothing when the player
\* holds none of the asset.
C39_BonusPerAcre ==
    (/\ last.op = "handle_tile_event"
     /\ TileBoard[last.amount].effect.kind = "HarvestBonusPerAcre") =>
        LET e == TileBoard[last.amount].effect
        IN  /\ last.ok
            /\ \E h \in process_harvest(pre, dpre.draw_pile, dpre.discard_pile, last.player,
                                        TileBoard[last.amount].harvest_type, last.rolls[1]) :
                  /\ players[last.player].cash =
                        h.players[last.player].cash
                           + Quantity(pre[last.player], e.asset) * e.bonus
                  /\ players[last.player].debt = h.players[last.player].debt

----------------------------------------------------------------------------
(* GameState::apply_card_effect, GameEffect::SlaughterCowsWithoutCompensation *)

Card215 == [id |-> 215, title |-> "PCB Contamination",
            effect |-> [kind |-> "SlaughterCowsWithoutCompensation"]]

\* The SlaughterCowsWithoutCompensation arm: the quantity of an existing Cows
\* record with quantity > 0 is set to 0; the record stays in the map and
\* update_scoreboard is not called.
slaughter_cows(ps, player_id) ==
    IF "Cows" \in DOMAIN ps[player_id].assets /\ ps[player_id].assets["Cows"].quantity > 0
    THEN [ok |-> TRUE, players |-> [ps EXCEPT ![player_id].assets["Cows"].quantity = 0]]
    ELSE [ok |-> TRUE, players |-> ps]

----------------------------------------------------------------------------
(* Asset specification: purchases, sales and the loss of cows.             *)

InitAssets ==
    /\ \E c \in [Players -> {0, 5000}], herd \in [Players -> {0, 10}] :
          players = [p \in Players |->
                        IF herd[p] > 0
                        THEN add_asset(NewPlayer("Roza Ray (Red)", c[p], 0),
                                       "Cows", herd[p], 500 * herd[p])
                        ELSE NewPlayer("Roza Ray (Red)", c[p], 0)]
    /\ InitRidges
    /\ pre = players
    /\ last = NoCall
    /\ calls = 0
    /\ InitDeckIdle

CallSlaughterCows(p) ==
    LET out == slaughter_cows(players, p)
    IN  /\ calls < MaxEngineCalls
        /\ players' = out.players
        /\ pre' = players
        /\ last' = [op |-> "apply_card_effect", player |-> p, amount |-> 0,
                    ok |-> out.ok, card |-> Card215.id]
        /\ calls' = calls + 1
        /\ UNCHANGED ridges
        /\ UNCHANGED deckVars

NextAssets ==
    \/ \E p \in Players : CallSlaughterCows(p)
    \/ \E p \in Players, a \in {"Hay", "Cows"} : CallSellAsset(p, a, 10, 1000)
    \/ \E p \in Players : CallAddAsset(p, "Cows", 10, 5000)

SpecAssets == InitAssets /\ [][NextAssets]_vars

\* C40: in every reachable state every record in a player's asset map has
\* quantity > 0, so that holding a record and holding a positive quantity
\* are the same thing.
C40_NoEmptyAssetRecord ==
    \A p \in Players :
        \A a \in DOMAIN players[p].assets : players[p].assets[a].quantity > 0

====
